---------------------------- MODULE Spec2Model ----------------------------
(***************************************************************************)
(* Staging-and-merge load of the two pipelines of the repository:          *)
(*   ATP_Logistics_Stage_pipeline.py  truncate inc_log, COPY the batches   *)
(*       of the extraction into it, DELETE ... USING, INSERT ... SELECT    *)
(*       into master_log;                                                  *)
(*   ATP_Order_Stage_pipeline.py      truncate stage_order_level, COPY the *)
(*       batches into it, INSERT ... ON CONFLICT DO UPDATE into            *)
(*       order_level.                                                      *)
(* A table is the sequence of its rows in heap order.  A row is the tuple  *)
(* of its fields in column order: the four natural-key columns, then one   *)
(* field standing for the remaining columns.  A field is a sequence of     *)
(* characters, so that lower(), || and the CSV text of a batch are         *)
(* computed on the characters.  The time.sleep() calls between the steps   *)
(* change no state and are left out.                                       *)
(***************************************************************************)
EXTENDS Integers, Sequences, FiniteSets, TLC

---------------------------------------------------------------------------
(* Bounds of the model. *)

\* Most rows one extraction returns.
MaxRows == 2
\* Most rows the target table holds before the first run.
MaxOld == 1

---------------------------------------------------------------------------
(* Fields, rows and the sample data. *)

\* SQL NULL: a field that is no character string.
NULL == <<"NULL">>

\* The columns of a row, in the order of the COPY column list.  The first
\* four are the natural key: "Seller NP", "Network order id", "Provider Id",
\* network_transaction_id in the order tables; bpp_id, order_id,
\* transaction_id, order_created_at in the logistics tables.  "other" stands
\* for every other column of the row.
Columns == <<"Seller NP", "Network order id", "Provider Id",
             "network_transaction_id", "other">>
Col(name) == CHOOSE i \in DOMAIN Columns : Columns[i] = name
KeyCols == {Col("Seller NP"), Col("Network order id"), Col("Provider Id"),
            Col("network_transaction_id")}

Key(row) == SubSeq(row, 1, Cardinality(KeyCols))

\* Four natural keys: a key, a key that differs from it only in the letter
\* case of the order id, a key with other fields whose concatenation is the
\* same, and an unrelated key.
KeyPlain == << <<"a">>, <<"b", "c">>, <<"d">>, <<"e">> >>
KeyUpper == << <<"a">>, <<"B", "C">>, <<"d">>, <<"e">> >>
KeyShift == << <<"a", "b">>, <<"c">>, <<"d">>, <<"e">> >>
KeyOther == << <<"a">>, <<"b", "c">>, <<"d">>, <<"f">> >>
Keys == {KeyPlain, KeyUpper, KeyShift, KeyOther}

\* Values of the other columns as the source returns them: a text with a
\* comma in it, and the empty string (the extraction queries themselves test
\* pincodes for '').
ValNew == <<"x", ",">>
ValEmpty == << >>
\* The value a row of an earlier load carries.
ValOld == <<"y">>

MkRow(k, v) == k \o <<v>>

\* The rows an extraction may return: one per key, and a second row for the
\* first key (both queries group by more columns than the natural key).
ExtRows == {MkRow(k, ValNew) : k \in Keys} \cup {MkRow(KeyPlain, ValEmpty)}
\* The rows earlier runs may have left in the tables.
OldRows == {MkRow(k, ValOld) : k \in Keys}
StaleRows == {MkRow(KeyOther, ValOld)}

\* Sequences over S of length at most n.
SeqsUpTo(S, n) == UNION {[1..m -> S] : m \in 0..n}

\* The results an extraction may return: the rows of a GROUP BY differ
\* pairwise.
Extractions ==
    {e \in SeqsUpTo(ExtRows, MaxRows) : \A i, j \in DOMAIN e : i # j => e[i] # e[j]}

RECURSIVE Flatten(_)
Flatten(ss) == IF ss = <<>> THEN <<>> ELSE Head(ss) \o Flatten(Tail(ss))

---------------------------------------------------------------------------
(* chunk.to_csv(buffer, index=False, header=False): one line per row, the  *)
(* fields separated by commas; a field holding a comma, a quote or a line  *)
(* break is quoted and its quotes doubled; a missing value and the empty   *)
(* string are both written as nothing.                                     *)

NeedsQuote(f) == \E i \in DOMAIN f : f[i] \in {",", "\"", "\n", "\r"}

RECURSIVE DoubleQuotes(_)
DoubleQuotes(f) ==
    IF f = <<>> THEN <<>>
    ELSE (IF Head(f) = "\"" THEN <<"\"", "\"">> ELSE <<Head(f)>>)
             \o DoubleQuotes(Tail(f))

CsvField(f) ==
    IF f = NULL THEN <<>>
    ELSE IF NeedsQuote(f) THEN <<"\"">> \o DoubleQuotes(f) \o <<"\"">>
    ELSE f

RECURSIVE CsvLine(_)
CsvLine(row) ==
    IF Len(row) = 1 THEN CsvField(row[1]) \o <<"\n">>
    ELSE CsvField(Head(row)) \o <<",">> \o CsvLine(Tail(row))

RECURSIVE to_csv(_)
to_csv(chunk) ==
    IF chunk = <<>> THEN <<>> ELSE CsvLine(Head(chunk)) \o to_csv(Tail(chunk))

(* COPY ... FROM STDIN WITH (FORMAT CSV): the rows read back from the      *)
(* text.  An unquoted empty field is NULL, a quoted one is the string      *)
(* between the quotes ("" inside it is one quote).  A line that does not   *)
(* hold one field per column fails the COPY.                               *)

FieldValue(fld, quoted) == IF fld = <<>> /\ ~quoted THEN NULL ELSE fld

RECURSIVE CopyScan(_, _, _, _, _, _)
CopyScan(text, fld, quoted, inq, row, rows) ==
    IF text = <<>>
    THEN IF fld # <<>> \/ row # <<>> \/ quoted
         THEN Append(rows, Append(row, FieldValue(fld, quoted)))
         ELSE rows
    ELSE LET c == Head(text)
             rest == Tail(text)
         IN  IF inq
             THEN IF c = "\""
                  THEN IF rest # <<>> /\ Head(rest) = "\""
                       THEN CopyScan(Tail(rest), Append(fld, "\""), TRUE, TRUE, row, rows)
                       ELSE CopyScan(rest, fld, TRUE, FALSE, row, rows)
                  ELSE CopyScan(rest, Append(fld, c), TRUE, TRUE, row, rows)
             ELSE IF c = "\""
                  THEN CopyScan(rest, fld, TRUE, TRUE, row, rows)
             ELSE IF c = ","
                  THEN CopyScan(rest, <<>>, FALSE, FALSE,
                                Append(row, FieldValue(fld, quoted)), rows)
             ELSE IF c = "\n"
                  THEN CopyScan(rest, <<>>, FALSE, FALSE, <<>>,
                                Append(rows, Append(row, FieldValue(fld, quoted))))
             ELSE CopyScan(rest, Append(fld, c), quoted, FALSE, row, rows)

copy_expert(buffer) ==
    LET rows == CopyScan(buffer, <<>>, FALSE, FALSE, <<>>, <<>>)
    IN  IF \A i \in DOMAIN rows : Len(rows[i]) = Len(Columns)
        THEN [ok |-> TRUE, rows |-> rows]
        ELSE [ok |-> FALSE, rows |-> <<>>]

---------------------------------------------------------------------------
(* pd.read_sql_query(query, conn, chunksize=chunksize): the result handed  *)
(* out as successive batches of chunksize rows, the last one shorter.      *)

\* The result as it would be handed over with the chunk size ignored.
BatchesWhole(rows, size) == IF rows = <<>> THEN <<>> ELSE <<rows>>

RECURSIVE Batches(_, _)
Batches(rows, size) ==
    IF rows = <<>> THEN <<>>
    ELSE IF Len(rows) <= size THEN <<rows>>
    ELSE <<SubSeq(rows, 1, size)>> \o Batches(SubSeq(rows, size + 1, Len(rows)), size)

---------------------------------------------------------------------------
(* The SQL statements of the reconcile step. *)

\* a = b in SQL: not true when either side is NULL.
SqlEq(a, b) == a # NULL /\ b # NULL /\ a = b

\* The join as it would be with the other columns compared too.
KeyJoinAllColumns(t, s) == \A c \in DOMAIN t : SqlEq(t[c], s[c])

\* The join as it would be without its last condition.
KeyJoinThreeColumns(t, s) ==
    \A c \in KeyCols \ {Col("network_transaction_id")} : SqlEq(t[c], s[c])

\* WHERE target.bpp_id = stage.bpp_id AND target.order_id = stage.order_id
\* AND target.transaction_id = stage.transaction_id
\* AND target.order_created_at = stage.order_created_at
KeyJoin(t, s) == \A c \in KeyCols : SqlEq(t[c], s[c])

\* The statement as it would be if it removed nothing.
TruncateNothing(table) == table

\* TRUNCATE inc_log / TRUNCATE stage_order_level
Truncate(table) == <<>>

\* The DELETE as it would be without its USING and WHERE clauses.
DeleteEveryRow(tgt, stg) == <<>>

\* DELETE FROM master_log target USING inc_log stage WHERE <key join>
DeleteUsing(tgt, stg) ==
    SelectSeq(tgt, LAMBDA t : ~ \E i \in DOMAIN stg : KeyJoin(t, stg[i]))

\* The INSERT as it would be if it skipped the staged rows whose key the
\* target already holds.
InsertSelectNewKeys(tgt, stg) ==
    tgt \o SelectSeq(stg, LAMBDA x : ~ \E i \in DOMAIN tgt : KeyJoin(tgt[i], x))

\* INSERT INTO master_log (<every column>) SELECT <every column> FROM inc_log
InsertSelect(tgt, stg) == tgt \o stg

LowerChar(c) == CASE c = "B" -> "b" [] c = "C" -> "c" [] OTHER -> c
lower(s) == [i \in DOMAIN s |-> LowerChar(s[i])]

\* a || b in SQL: NULL when either side is NULL.
Concat(a, b) == IF a = NULL \/ b = NULL THEN NULL ELSE a \o b

\* The key expression as it would be without lower().
ConflictKeyExact(row) ==
    Concat(Concat(Concat(row[Col("Seller NP")], row[Col("Network order id")]),
                  row[Col("Provider Id")]), row[Col("network_transaction_id")])

\* lower("Seller NP" || "Network order id" || "Provider Id" || network_transaction_id)
ConflictKey(row) ==
    LET cat == Concat(Concat(Concat(row[Col("Seller NP")], row[Col("Network order id")]),
                             row[Col("Provider Id")]), row[Col("network_transaction_id")])
    IN  IF cat = NULL THEN NULL ELSE lower(cat)

\* The unique index the ON CONFLICT clause names: no two rows of the table
\* have the same non-NULL key.
UniqueIndexOk(table) ==
    \A i, j \in DOMAIN table :
        i # j => ~ SqlEq(ConflictKey(table[i]), ConflictKey(table[j]))

\* DO UPDATE SET <column> = EXCLUDED.<column> for every inserted column but
\* "Network order id", which the SET list does not name.
DoUpdateSet(existing, excluded) ==
    [c \in DOMAIN existing |->
        IF c = Col("Network order id") THEN existing[c] ELSE excluded[c]]

\* INSERT INTO order_level ... SELECT ... FROM stage_order_level
\* ON CONFLICT (<key>) DO UPDATE SET ...: the staged rows one after the other.
\* A row without conflict is inserted; on a conflict the existing row is
\* updated, unless this statement already inserted or updated it (the
\* statement fails: it cannot affect a row a second time) or the updated row
\* collides with another row of the index (unique violation).
RECURSIVE UpsertRows(_, _, _)
UpsertRows(table, touched, rows) ==
    IF rows = <<>> THEN [ok |-> TRUE, table |-> table]
    ELSE LET s == Head(rows)
             hits == {i \in DOMAIN table : SqlEq(ConflictKey(table[i]), ConflictKey(s))}
         IN  IF hits = {}
             THEN UpsertRows(Append(table, s), touched \cup {Len(table) + 1}, Tail(rows))
             ELSE LET i == CHOOSE j \in hits : TRUE
                      new == DoUpdateSet(table[i], s)
                  IN  IF i \in touched
                         \/ \E j \in DOMAIN table \ {i} :
                                SqlEq(ConflictKey(table[j]), ConflictKey(new))
                      THEN [ok |-> FALSE, table |-> table]
                      ELSE UpsertRows([table EXCEPT ![i] = new], touched \cup {i},
                                      Tail(rows))

\* The statement as it would be without its ON CONFLICT clause and without
\* the unique index.
InsertWithoutConflictClause(tgt, stg) == [ok |-> TRUE, table |-> tgt \o stg]

InsertOnConflict(tgt, stg) == UpsertRows(tgt, {}, stg)

---------------------------------------------------------------------------
(* main() of the order script: the optional date argument.  A date is the  *)
(* sequence of its characters.                                             *)

Digits == <<"0", "1", "2", "3", "4", "5", "6", "7", "8", "9">>
IsDigit(c) == \E i \in DOMAIN Digits : Digits[i] = c
AllDigits(s) == \A i \in DOMAIN s : IsDigit(s[i])
DigitValue(c) == (CHOOSE i \in DOMAIN Digits : Digits[i] = c) - 1

\* int() of a string of digits.
RECURSIVE Number(_)
Number(s) ==
    IF s = <<>> THEN 0
    ELSE 10 * Number(SubSeq(s, 1, Len(s) - 1)) + DigitValue(s[Len(s)])

IsLeap(y) == (y % 4 = 0 /\ y % 100 # 0) \/ y % 400 = 0
DaysIn(y, m) ==
    IF m = 2 THEN (IF IsLeap(y) THEN 29 ELSE 28)
    ELSE IF m \in {4, 6, 9, 11} THEN 30 ELSE 31

\* What %m matches: 1[0-2], 0[1-9] or [1-9].
MonthToken(t) ==
    \/ Len(t) = 1 /\ IsDigit(t[1]) /\ t[1] # "0"
    \/ Len(t) = 2 /\ AllDigits(t) /\ Number(t) \in 1..12

\* What %d matches: 3[01], [12]\d, 0[1-9], [1-9] or a blank and [1-9].
DayToken(t) ==
    \/ Len(t) = 1 /\ IsDigit(t[1]) /\ t[1] # "0"
    \/ Len(t) = 2 /\ AllDigits(t) /\ Number(t) \in 1..31
    \/ Len(t) = 2 /\ t[1] = " " /\ IsDigit(t[2]) /\ t[2] # "0"

DayNumber(t) == IF t[1] = " " THEN Number(Tail(t)) ELSE Number(t)

\* datetime.strptime(date_string, '%Y-%m-%d') returns (TRUE) or raises
\* ValueError (FALSE): four digits, "-", a month, "-", a day and nothing
\* after it, and the day is a day of that month of that year.
strptime(date_string) ==
    /\ Len(date_string) >= 8
    /\ AllDigits(SubSeq(date_string, 1, 4))
    /\ Number(SubSeq(date_string, 1, 4)) >= 1
    /\ date_string[5] = "-"
    /\ \E i \in {7, 8} :
          /\ i < Len(date_string)
          /\ date_string[i] = "-"
          /\ MonthToken(SubSeq(date_string, 6, i - 1))
          /\ DayToken(SubSeq(date_string, i + 1, Len(date_string)))
          /\ DayNumber(SubSeq(date_string, i + 1, Len(date_string)))
                 <= DaysIn(Number(SubSeq(date_string, 1, 4)),
                           Number(SubSeq(date_string, 6, i - 1)))

\* The decimal digits of n, zero-padded to width.
RECURSIVE Power10(_)
Power10(k) == IF k = 0 THEN 1 ELSE 10 * Power10(k - 1)
Padded(n, width) == [i \in 1..width |-> Digits[((n \div Power10(width - i)) % 10) + 1]]

\* dt.strftime('%Y-%m-%d')
strftime(dt) ==
    Padded(dt.year, 4) \o <<"-">> \o Padded(dt.month, 2) \o <<"-">> \o Padded(dt.day, 2)

\* datetime.now(), the day the process runs.
now == [year |-> 2024, month |-> 3, day |-> 7]

\* Sample arguments.
DateIso == <<"2", "0", "2", "4", "-", "0", "3", "-", "0", "6">>
DateShort == <<"2", "0", "2", "4", "-", "3", "-", "6">>
DateBlank == <<"2", "0", "2", "4", "-", "0", "3", "-", " ", "6">>
DateBadMonth == <<"2", "0", "2", "4", "-", "1", "3", "-", "0", "6">>
DateBadDay == <<"2", "0", "2", "3", "-", "0", "2", "-", "2", "9">>
DateSwapped == <<"0", "6", "-", "0", "3", "-", "2", "0", "2", "4">>
DateTrailing == <<"2", "0", "2", "4", "-", "0", "3", "-", "0", "6", "x">>
DateEmpty == <<>>
Dates == {DateIso, DateShort, DateBlank, DateBadMonth, DateBadDay, DateSwapped,
          DateTrailing, DateEmpty}

\* The command lines: no argument, or one argument.
NoArgv == <<>>
Argvs == {NoArgv} \cup {<<d>> : d \in Dates}

---------------------------------------------------------------------------
(* The state. *)

VARIABLES
    pipeline,   \* which of the two scripts runs: "logistics" or "order"
    chunksize,  \* the chunksize of fetch_and_insert_data
    target,     \* master_log / order_level
    staging,    \* inc_log / stage_order_level
    run,        \* per run of the script: where it is and what it did
    db_manager, \* db_util's module global: None or the DatabaseManager object
    made,       \* the DatabaseManager objects constructed so far
    service,    \* GoogleSheetsETL.service: TRUE once authenticate() has built it
    sheet,      \* the values of the spreadsheet: rows of cells, the header row first
    loaded,     \* the rows of the target table of the spreadsheet load
    last,       \* the last call into db_util or ETL_GSpread and how it ended
    workbook,   \* the data rows of the sheet consolidate_dax_queries reads
    output      \* what consolidate_dax_queries wrote and reported, None before the call

\* The state of the spreadsheet load and of the DAX consolidation, which the
\* two pipelines never touch.
sheetvars == <<db_manager, made, service, sheet, loaded, last>>
daxvars == <<workbook, output>>

vars == <<pipeline, chunksize, target, staging, run, sheetvars, daxvars>>

\* A run and its re-run.
Runs == 1..2

\* What the environment may do to a call: nothing, or fail it at a point.
SqlFaults == {"none", "connect", "execute"}
SourceFaults == {"none", "connect", "query"}
LoadFaults == {"none", "connect", "copy", "commit"}
AllFaults == SqlFaults \cup SourceFaults \cup LoadFaults
NoFaults == {"none"}

IdleRun ==
    [pc |-> "idle",        \* idle, truncate, fetch, load, delete, insert, upsert, done,
                           \* crashed (import failed), rejected (sys.exit(1) in main)
     ext |-> <<>>,         \* the rows the extraction query returns in this run
     pulled |-> 0,         \* batches pulled from the result iterator
     chunk |-> <<>>,       \* the batch insert_data_batch is working on
     handed |-> <<>>,      \* the batches handed to insert_data_batch, in order
     returned |-> 0,       \* calls of insert_data_batch that have ended
     committed |-> <<>>,   \* the rows this run's batch loads committed
     loadfails |-> 0,      \* calls of insert_data_batch that committed nothing
     tgt0 |-> <<>>,        \* the target table when the run started
     stg0 |-> <<>>,        \* the staging table when the run started
     source |-> "none",    \* each step: none (not executed), ok, fail
     truncate |-> "none",
     fetch |-> "none",
     delete |-> "none",
     insert |-> "none",
     upsert |-> "none",
     log |-> <<>>,         \* the lines the run logged
     outcome |-> <<>>,     \* how each call of insert_data_batch ended, in order: ok,
                           \* fail (error handled), raised (error left the function)
     dest |-> <<>>,        \* open and close of the run's destination connections, in order
     argv |-> <<>>,        \* the arguments of the command line, sys.argv[1:]
     target_date |-> <<>>, \* the date substituted into the extraction query
     exit |-> "none"]      \* the exit code of the process of the order script

\* The reconcile step as it would be with insert_rows called first.
ReconcileInsertFirst == IF pipeline = "logistics" THEN "insert" ELSE "upsert"

\* The first statement of the reconcile step.
Reconcile == IF pipeline = "logistics" THEN "delete" ELSE "upsert"

\* db_util's db_manager while it is None, and a DatabaseManager object as
\* __init__ leaves it: no engine, no session factory.  id numbers the
\* objects in the order they are constructed; connects counts the calls of
\* its connect().
NoManager == [id |-> 0, engine |-> FALSE, SessionLocal |-> FALSE, connects |-> 0]
DatabaseManager(n) == [id |-> n, engine |-> FALSE, SessionLocal |-> FALSE, connects |-> 0]

\* No call into db_util or ETL_GSpread has been made yet.
NoCall == [fn |-> "none", result |-> "none", raised |-> "none", fault |-> "none",
           before |-> <<>>]

\* Nothing has been consolidated yet.
NoOutput == [written |-> FALSE, rows |-> <<>>, total |-> 0]

\* The state of the parts of the repository that a specification leaves out.
SheetsIdle ==
    /\ db_manager = NoManager
    /\ made = 0
    /\ service = FALSE
    /\ sheet = <<>>
    /\ loaded = <<>>
    /\ last = NoCall
DaxIdle == workbook = <<>> /\ output = NoOutput
PipelinesIdle ==
    /\ pipeline = "order"
    /\ chunksize = 1
    /\ target = <<>>
    /\ staging = <<>>
    /\ run = [r \in Runs |-> IdleRun]

TypeOK ==
    /\ pipeline \in {"logistics", "order"}
    /\ chunksize \in 1..MaxRows
    /\ \A r \in Runs : run[r].pc \in {"idle", "truncate", "fetch", "load", "delete",
                                      "insert", "upsert", "done", "crashed", "rejected"}

Init ==
    /\ pipeline \in {"logistics", "order"}
    /\ chunksize \in 1..MaxRows
    /\ target \in {t \in SeqsUpTo(OldRows, MaxOld) :
                      pipeline = "order" => UniqueIndexOk(t)}
    /\ staging \in SeqsUpTo(StaleRows, MaxOld)
    /\ run = [r \in Runs |-> IdleRun]
    /\ SheetsIdle
    /\ DaxIdle

\* Run r has ended: run() returned, or the process ended before run().
Ended(r) == run[r].pc \in {"done", "crashed", "rejected"}

\* The connection of one call as it would be if only the success path
\* closed it.
DestEventsClosedOnSuccess(fault) ==
    IF fault = "connect" THEN <<>>
    ELSE IF fault = "none" THEN <<"open", "close">>
    ELSE <<"open">>

\* The destination connection of one call: opened unless the connect
\* fails, and closed in the finally block on every path after that.
DestEvents(fault) == IF fault = "connect" THEN <<>> ELSE <<"open", "close">>

---------------------------------------------------------------------------
(* DatabaseHandler.execute_sql_psycopg2(query): connect, execute, commit;  *)
(* on an error log it, roll back and raise it again.  stmt is what the     *)
(* statement does to the table when it executes: [ok, table].              *)

\* The call as it would be if its handler did not raise the error again.
execute_sql_psycopg2_swallowing(fault, stmt, before) ==
    IF fault = "none" /\ stmt.ok
    THEN [raised |-> FALSE, table |-> stmt.table, dest |-> DestEvents(fault),
          log |-> <<"INFO SQL query executed successfully">>]
    ELSE [raised |-> FALSE, table |-> before, dest |-> DestEvents(fault),
          log |-> <<"ERROR Error executing SQL query">>]

execute_sql_psycopg2(fault, stmt, before) ==
    IF fault = "none" /\ stmt.ok
    THEN [raised |-> FALSE, table |-> stmt.table, dest |-> DestEvents(fault),
          log |-> <<"INFO SQL query executed successfully">>]
    ELSE [raised |-> TRUE, table |-> before, dest |-> DestEvents(fault),
          log |-> <<"ERROR Error executing SQL query">>]

---------------------------------------------------------------------------
(* main() of the order script around run().                                *)

\* The date main() hands to run(): the argument as it is, or None (<<>>
\* here, with given = FALSE) when there is no argument.  ok is FALSE when
\* strptime raised ValueError.
ParseArgv(argv) ==
    IF argv = NoArgv THEN [ok |-> TRUE, given |-> FALSE, date |-> <<>>]
    ELSE [ok |-> strptime(argv[1]), given |-> TRUE, date |-> argv[1]]

\* The return of run() as it would be under a supervisor that starts the
\* script again whenever it has ended.
main_return_restarted(rec) == [IdleRun EXCEPT !.argv = rec.argv]

\* run() has returned to main(): every error of a step was handled inside
\* run(), so main() logs the completion and the process exits with 0.  The
\* logistics module has no entry point of its own.
main_return(rec) ==
    IF pipeline = "order"
    THEN [rec EXCEPT !.pc = "done", !.exit = "0",
              !.log = @ \o <<"INFO ATP Order Stage Data Pipeline completed successfully!">>]
    ELSE [rec EXCEPT !.pc = "done"]

---------------------------------------------------------------------------
(* The steps of a run. *)

\* The start of a script as it would be behind a lock that one run holds
\* from its start to its end.
start_exclusive(r, F) ==
    /\ run[r].pc = "idle"
    /\ \A q \in Runs \ {r} : run[q].pc = "idle" \/ Ended(q)
    /\ \E e \in Extractions :
          run' = [run EXCEPT ![r] =
                    [@ EXCEPT !.pc = "truncate", !.ext = e,
                              !.tgt0 = target, !.stg0 = staging]]
    /\ UNCHANGED <<pipeline, chunksize, target, staging, sheetvars, daxvars>>

\* The script is started: the module is loaded and run() is entered.  The
\* logistics module opens the source connection while it is loaded, outside
\* of any handler: when that fails the process ends there.  main() of the
\* order script checks the date argument first and exits with 1 when
\* strptime raises; run() takes the current date when it is given none.
start(r, F) ==
    /\ run[r].pc = "idle"
    /\ \E e \in Extractions, fault \in F \cap {"none", "connect"} :
          LET arg == ParseArgv(run[r].argv)
          IN  /\ fault = "connect" => pipeline = "logistics"
              /\ run' = [run EXCEPT ![r] =
                    IF fault = "connect"
                    THEN [@ EXCEPT !.pc = "crashed", !.source = "fail",
                             !.ext = e, !.tgt0 = target, !.stg0 = staging]
                    ELSE IF pipeline = "order" /\ ~arg.ok
                    THEN [@ EXCEPT !.pc = "rejected", !.exit = "1",
                             !.ext = e, !.tgt0 = target, !.stg0 = staging,
                             !.log = @ \o <<"ERROR Invalid date format. Please use YYYY-MM-DD format.">>]
                    ELSE [@ EXCEPT !.pc = "truncate",
                             !.ext = e, !.tgt0 = target, !.stg0 = staging,
                             !.target_date = IF pipeline # "order" THEN @
                                             ELSE IF arg.given THEN arg.date
                                             ELSE strftime(now),
                             !.log = @ \o (IF pipeline = "order" /\ arg.given
                                           THEN <<"INFO Date argument provided">>
                                           ELSE <<>>)]]
    /\ UNCHANGED <<pipeline, chunksize, target, staging, sheetvars, daxvars>>

\* run(): TRUNCATE of the staging table, inside run()'s try block.
truncate(r, F) ==
    /\ run[r].pc = "truncate"
    /\ \E fault \in F \cap SqlFaults :
          LET res == execute_sql_psycopg2(
                         fault, [ok |-> TRUE, table |-> Truncate(staging)], staging)
          IN  /\ staging' = res.table
              /\ run' = [run EXCEPT ![r] =
                    IF res.raised
                    THEN main_return(
                          [@ EXCEPT !.truncate = "fail", !.dest = @ \o res.dest,
                             !.log = @ \o res.log
                                 \o <<"ERROR An error occurred during data insertion">>])
                    ELSE [@ EXCEPT !.pc = "fetch", !.truncate = "ok",
                             !.dest = @ \o res.dest,
                             !.log = @ \o res.log \o <<"INFO Table truncated">>]]
    /\ UNCHANGED <<pipeline, chunksize, target, sheetvars, daxvars>>

\* fetch_and_insert_data(): one turn of the loop head.  The next batch is
\* pulled from the result and handed to insert_data_batch, or the result is
\* exhausted, or the source fails: the handler logs it and the function
\* returns.  The order pipeline opens the source connection here, before the
\* first pull.
fetch_and_insert_data(r, F) ==
    /\ run[r].pc = "fetch"
    /\ \E fault \in F \cap SourceFaults :
          LET batches == Batches(run[r].ext, chunksize)
          IN  /\ fault = "connect" => pipeline = "order" /\ run[r].pulled = 0
              /\ run' = [run EXCEPT ![r] =
                    IF fault # "none"
                    THEN [@ EXCEPT !.pc = Reconcile, !.source = "fail", !.fetch = "fail",
                             !.log = @ \o <<"ERROR Error during fetch and insert">>]
                    ELSE IF run[r].pulled < Len(batches)
                    THEN [@ EXCEPT !.pc = "load", !.pulled = @ + 1,
                             !.chunk = batches[run[r].pulled + 1],
                             !.handed = Append(@, batches[run[r].pulled + 1])]
                    ELSE [@ EXCEPT !.pc = Reconcile, !.source = "ok", !.fetch = "ok"]]
    /\ UNCHANGED <<pipeline, chunksize, target, staging, sheetvars, daxvars>>

\* insert_data_batch(chunk) as it would be with one more attempt after a
\* failed one: the second attempt loads the batch.
insert_data_batch_retrying(r, F) ==
    /\ run[r].pc = "load"
    /\ \E fault \in F \cap LoadFaults :
          LET copied == copy_expert(to_csv(run[r].chunk))
              first == fault = "none" /\ copied.ok
          IN  /\ staging' = IF copied.ok THEN staging \o copied.rows ELSE staging
              /\ run' = [run EXCEPT ![r] =
                    [@ EXCEPT !.pc = "fetch", !.chunk = <<>>, !.returned = @ + 1,
                              !.committed = @ \o (IF copied.ok THEN copied.rows ELSE <<>>),
                              !.loadfails = @ + (IF copied.ok THEN 0 ELSE 1),
                              !.outcome = @ \o (IF first THEN <<"ok">>
                                                ELSE IF copied.ok THEN <<"fail", "ok">>
                                                ELSE <<"fail", "fail">>),
                              !.dest = @ \o DestEvents(fault)
                                         \o (IF first THEN <<>> ELSE DestEvents("none")),
                              !.log = @ \o (IF first THEN <<>> ELSE <<"ERROR Error inserting chunk">>)
                                        \o (IF copied.ok
                                            THEN <<"INFO Chunk successfully inserted into PostgreSQL.">>
                                            ELSE <<"ERROR Error inserting chunk">>)]]
    /\ UNCHANGED <<pipeline, chunksize, target, sheetvars, daxvars>>

\* insert_data_batch(chunk): connect, write the batch as CSV, COPY it into
\* the staging table, commit.  An error is logged and rolled back.  When the
\* connect itself failed, the handler's "if connpost" reads a name that was
\* never bound: that error leaves insert_data_batch and ends the loop in
\* fetch_and_insert_data's handler.
insert_data_batch(r, F) ==
    /\ run[r].pc = "load"
    /\ \E fault \in F \cap LoadFaults :
          LET copied == copy_expert(to_csv(run[r].chunk))
              ok == fault = "none" /\ copied.ok
          IN  /\ staging' = IF ok THEN staging \o copied.rows ELSE staging
              /\ run' = [run EXCEPT ![r] =
                    IF ok
                    THEN [@ EXCEPT !.pc = "fetch", !.chunk = <<>>, !.returned = @ + 1,
                             !.committed = @ \o copied.rows,
                             !.outcome = Append(@, "ok"), !.dest = @ \o DestEvents(fault),
                             !.log = @ \o <<"INFO Chunk successfully inserted into PostgreSQL.">>]
                    ELSE IF fault = "connect"
                    THEN [@ EXCEPT !.pc = Reconcile, !.chunk = <<>>, !.returned = @ + 1,
                             !.loadfails = @ + 1, !.fetch = "fail",
                             !.outcome = Append(@, "raised"), !.dest = @ \o DestEvents(fault),
                             !.log = @ \o <<"ERROR Error inserting chunk",
                                            "ERROR Error during fetch and insert">>]
                    ELSE [@ EXCEPT !.pc = "fetch", !.chunk = <<>>, !.returned = @ + 1,
                             !.loadfails = @ + 1,
                             !.outcome = Append(@, "fail"), !.dest = @ \o DestEvents(fault),
                             !.log = @ \o <<"ERROR Error inserting chunk">>]]
    /\ UNCHANGED <<pipeline, chunksize, target, sheetvars, daxvars>>

\* delete_rows() as it would be without a handler of its own: the error of
\* the DELETE leaves it and ends run().
delete_rows_unhandled(r, F) ==
    /\ run[r].pc = "delete"
    /\ \E fault \in F \cap SqlFaults :
          LET res == execute_sql_psycopg2(
                         fault, [ok |-> TRUE, table |-> DeleteUsing(target, staging)], target)
          IN  /\ target' = res.table
              /\ run' = [run EXCEPT ![r] =
                    IF res.raised
                    THEN [@ EXCEPT !.pc = "done", !.delete = "fail",
                             !.dest = @ \o res.dest,
                             !.log = @ \o res.log
                                 \o <<"ERROR An error occurred during data insertion">>]
                    ELSE [@ EXCEPT !.pc = "insert", !.delete = "ok",
                             !.dest = @ \o res.dest,
                             !.log = @ \o res.log
                                 \o <<"INFO Task: Logistics rows deleted Compelete">>]]
    /\ UNCHANGED <<pipeline, chunksize, staging, sheetvars, daxvars>>

\* delete_rows(): the DELETE ... USING, in a handler of its own.
delete_rows(r, F) ==
    /\ run[r].pc = "delete"
    /\ \E fault \in F \cap SqlFaults :
          LET res == execute_sql_psycopg2(
                         fault, [ok |-> TRUE, table |-> DeleteUsing(target, staging)], target)
          IN  /\ target' = res.table
              /\ run' = [run EXCEPT ![r] =
                    [@ EXCEPT !.pc = "insert",
                              !.delete = IF res.raised THEN "fail" ELSE "ok",
                              !.dest = @ \o res.dest,
                              !.log = @ \o res.log \o
                                  (IF res.raised
                                   THEN <<"ERROR Error Logistics rows deleted">>
                                   ELSE <<"INFO Task: Logistics rows deleted Compelete">>)]]
    /\ UNCHANGED <<pipeline, chunksize, staging, sheetvars, daxvars>>

\* insert_rows() as it would be in one transaction with delete_rows(): an
\* error of the INSERT rolls the DELETE back too.
insert_rows_same_transaction(r, F) ==
    /\ run[r].pc = "insert"
    /\ \E fault \in F \cap SqlFaults :
          LET res == execute_sql_psycopg2(
                         fault, [ok |-> TRUE, table |-> InsertSelect(target, staging)],
                         run[r].tgt0)
          IN  /\ target' = res.table
              /\ run' = [run EXCEPT ![r] =
                    main_return(
                        [@ EXCEPT !.insert = IF res.raised THEN "fail" ELSE "ok",
                                  !.dest = @ \o res.dest,
                                  !.log = @ \o res.log])]
    /\ UNCHANGED <<pipeline, chunksize, staging, sheetvars, daxvars>>

\* insert_rows(): the INSERT ... SELECT, in a handler of its own.
insert_rows(r, F) ==
    /\ run[r].pc = "insert"
    /\ \E fault \in F \cap SqlFaults :
          LET res == execute_sql_psycopg2(
                         fault, [ok |-> TRUE, table |-> InsertSelect(target, staging)], target)
          IN  /\ target' = res.table
              /\ run' = [run EXCEPT ![r] =
                    main_return(
                        [@ EXCEPT !.insert = IF res.raised THEN "fail" ELSE "ok",
                                  !.dest = @ \o res.dest,
                                  !.log = @ \o res.log \o
                                      (IF res.raised
                                       THEN <<"ERROR Error Logistics rows insert">>
                                       ELSE <<"INFO Task: Logistics rows insert Compelete">>)])]
    /\ UNCHANGED <<pipeline, chunksize, staging, sheetvars, daxvars>>

\* insert_update(): the INSERT ... ON CONFLICT DO UPDATE, in a handler of its own.
insert_update(r, F) ==
    /\ run[r].pc = "upsert"
    /\ \E fault \in F \cap SqlFaults :
          LET res == execute_sql_psycopg2(fault, InsertOnConflict(target, staging), target)
          IN  /\ target' = res.table
              /\ run' = [run EXCEPT ![r] =
                    main_return(
                        [@ EXCEPT !.upsert = IF res.raised THEN "fail" ELSE "ok",
                                  !.dest = @ \o res.dest,
                                  !.log = @ \o res.log \o
                                      (IF res.raised
                                       THEN <<"ERROR Error during Update and Insert">>
                                       ELSE <<"INFO Task: Update and Insert Compelete">>)])]
    /\ UNCHANGED <<pipeline, chunksize, staging, sheetvars, daxvars>>

Step(r, F) ==
    \/ start(r, F)
    \/ truncate(r, F)
    \/ fetch_and_insert_data(r, F)
    \/ insert_data_batch(r, F)
    \/ delete_rows(r, F)
    \/ insert_rows(r, F)
    \/ insert_update(r, F)

\* One run of either script, in an environment where every call may fail.
Next == Step(1, AllFaults)
Spec == Init /\ [][Next]_vars

\* One run of either script in an environment where every call may fail and
\* every call returns or raises: the interpreter goes on to the next
\* statement for as long as there is one.
InitTerminating == Init /\ target \in SeqsUpTo(StaleRows, MaxOld)
\* Weak fairness of every step of the run.  For the batch load and the
\* upsert it is written out, with the state in which the step is enabled
\* (the run stands at it: a call can always fail at its connect) in the
\* place of ENABLED.
Returns ==
    /\ WF_vars(start(1, AllFaults))
    /\ WF_vars(truncate(1, AllFaults))
    /\ WF_vars(fetch_and_insert_data(1, AllFaults))
    /\ WF_vars(delete_rows(1, AllFaults))
    /\ WF_vars(insert_rows(1, AllFaults))
    /\ \/ []<>(run[1].pc # "load")
       \/ []<><<insert_data_batch(1, AllFaults)>>_vars
    /\ \/ []<>(run[1].pc # "upsert")
       \/ []<><<insert_update(1, AllFaults)>>_vars
SpecTerminating == InitTerminating /\ [][Next]_vars /\ Returns

\* One run of either script for each command line, in an environment where
\* every call may fail.
InitMain ==
    /\ pipeline \in {"logistics", "order"}
    /\ chunksize = MaxRows
    /\ target \in {t \in SeqsUpTo(OldRows, MaxOld) :
                      pipeline = "order" => UniqueIndexOk(t)}
    /\ staging \in SeqsUpTo(StaleRows, MaxOld)
    /\ \E a \in Argvs :
          /\ pipeline = "logistics" => a = NoArgv
          /\ run = [r \in Runs |-> [IdleRun EXCEPT !.argv = a]]
    /\ SheetsIdle
    /\ DaxIdle
SpecMain == InitMain /\ [][Next]_vars

\* Two runs of the same script at the same time on the same tables, in an
\* environment where no call fails: the steps of the two processes
\* interleave in any order.
InitConcurrent == Init /\ staging = <<>> /\ target = <<>> /\ chunksize = 1
NextConcurrent == \E r \in Runs : Step(r, NoFaults)
SpecConcurrent == InitConcurrent /\ [][NextConcurrent]_vars

\* A run and a second run after it has ended, in an environment where no
\* call fails.
InitRerun == Init /\ staging = <<>> /\ chunksize = MaxRows
NextRerun == \E r \in Runs : (\A q \in Runs : q < r => Ended(q)) /\ Step(r, NoFaults)
SpecRerun == InitRerun /\ [][NextRerun]_vars

---------------------------------------------------------------------------
(* The sample spreadsheets and frames of the spreadsheet load. *)

\* A cell pandas filled in for a value the row did not have, and SQL NULL in
\* a loaded row.
Missing == "<None>"
SqlNull == "<NULL>"

\* The header row as typed into the sheet, and data rows: a full one, one
\* whose last cell is blank (the API leaves trailing blanks out), one with a
\* cell too many.
HeaderRow == <<"Pincode", " Tier ">>
RowFull == <<"110001", "1">>
RowShort == <<"560001">>
RowLong == <<"400001", "2", "x">>

\* result.get('values', []) of the sample sheets.
Sheets ==
    {<<>>, <<HeaderRow>>, <<HeaderRow, RowFull>>, <<HeaderRow, RowFull, RowShort>>,
     <<HeaderRow, RowShort>>, <<HeaderRow, RowFull, RowLong>>}

\* A row of a frame handed to bulk_insert_dataframe directly, and the row
\* an earlier load left in the table.
FrameRow == <<"110001", "1">>
OldLoaded == <<"999999", "3">>

---------------------------------------------------------------------------
(* common/db_util.py: the DatabaseManager and its module global.           *)

\* Most calls of connect() on one DatabaseManager.
MaxConnects == 2
\* Most rows the table of the spreadsheet load holds.
MaxLoaded == 3

\* What the environment may do to connect(): nothing, make create_engine
\* raise, or make the test query on the new engine fail.
ConnectFaults == {"none", "engine", "select"}
\* ... and to bulk_insert_dataframe(): fail the TRUNCATE or fail to_sql.
InsertFaults == {"none", "truncate", "insert"}

\* DatabaseManager.connect(): self.engine is bound first, the session
\* factory only after the test query went through.  Both errors are
\* SQLAlchemyErrors, which the handler logs: connect() returns False.
connect(mgr, fault) ==
    [mgr EXCEPT !.connects = @ + 1,
                !.engine = IF fault = "engine" THEN @ ELSE TRUE,
                !.SessionLocal = IF fault = "none" THEN TRUE ELSE @]

\* DatabaseManager.truncate_table(table_name): TRUNCATE and commit on a
\* connection of its own; every error is logged and gives False.
truncate_table(mgr, table, fault) ==
    IF mgr.engine /\ fault # "truncate"
    THEN [result |-> TRUE, table |-> <<>>]
    ELSE [result |-> FALSE, table |-> table]

\* bulk_insert_dataframe as it would be with the TRUNCATE and the INSERT in
\* one transaction: a failed insert brings the old rows back.
bulk_insert_dataframe_one_transaction(mgr, table, df, truncate_first, fault) ==
    LET cleared == IF truncate_first THEN truncate_table(mgr, table, fault)
                   ELSE [result |-> TRUE, table |-> table]
    IN  IF ~cleared.result THEN [result |-> FALSE, table |-> table]
        ELSE IF mgr.engine /\ fault # "insert"
        THEN [result |-> TRUE, table |-> cleared.table \o df]
        ELSE [result |-> FALSE, table |-> table]

\* DatabaseManager.bulk_insert_dataframe(df, table_name, if_exists='append',
\* truncate_first): the truncate when asked for, then df.to_sql, which
\* inserts all rows in one transaction of its own.  Every error is logged
\* and gives False.
bulk_insert_dataframe(mgr, table, df, truncate_first, fault) ==
    LET cleared == IF truncate_first THEN truncate_table(mgr, table, fault)
                   ELSE [result |-> TRUE, table |-> table]
    IN  IF ~cleared.result THEN [result |-> FALSE, table |-> cleared.table]
        ELSE IF mgr.engine /\ fault # "insert"
        THEN [result |-> TRUE, table |-> cleared.table \o df]
        ELSE [result |-> FALSE, table |-> cleared.table]

\* Python's str() of a bool.
Str(b) == IF b THEN "True" ELSE "False"

\* The record of a call: its name, what it returned, the exception that left
\* it, the fault the environment chose, and the table before the call (for
\* get_db_manager the global before the call).
Call(fn, result, raised, fault, before) ==
    [fn |-> fn, result |-> result, raised |-> raised, fault |-> fault, before |-> before]

\* get_db_manager() as it would be if it made a new DatabaseManager
\* whenever the one it holds has no session factory.
get_db_manager_until_connected ==
    /\ \E fault \in ConnectFaults :
          LET fresh == db_manager.id = 0 \/ ~db_manager.SessionLocal
              mgr == IF fresh THEN connect(DatabaseManager(made + 1), fault)
                     ELSE db_manager
          IN  /\ made < MaxConnects \/ ~fresh
              /\ db_manager' = mgr
              /\ made' = IF fresh THEN made + 1 ELSE made
              /\ last' = Call("get_db_manager", mgr.id, "none", fault, db_manager)
    /\ UNCHANGED <<pipeline, chunksize, target, staging, run, service, sheet, loaded, daxvars>>

\* get_db_manager(): the DatabaseManager is made and connect() called when
\* the global is None; what connect() returns is not looked at.
get_db_manager ==
    /\ \E fault \in ConnectFaults :
          LET fresh == db_manager.id = 0
              mgr == IF fresh THEN connect(DatabaseManager(made + 1), fault)
                     ELSE db_manager
          IN  /\ db_manager' = mgr
              /\ made' = IF fresh THEN made + 1 ELSE made
              /\ last' = Call("get_db_manager", mgr.id, "none", fault, db_manager)
    /\ UNCHANGED <<pipeline, chunksize, target, staging, run, service, sheet, loaded, daxvars>>

\* db_manager.connect(), called again by a user of the object.
connect_again ==
    /\ db_manager.id # 0
    /\ db_manager.connects < MaxConnects
    /\ \E fault \in ConnectFaults :
          /\ db_manager' = connect(db_manager, fault)
          /\ last' = Call("connect", Str(fault = "none"), "none", fault, loaded)
    /\ UNCHANGED <<pipeline, chunksize, target, staging, run, made, service, sheet, loaded, daxvars>>

\* db_manager.get_session(): a session of the factory, or RuntimeError
\* when there is no factory.
get_session ==
    /\ db_manager.id # 0
    /\ last' = IF db_manager.SessionLocal
               THEN Call("get_session", "Session", "none", "none", loaded)
               ELSE Call("get_session", "none", "RuntimeError", "none", loaded)
    /\ UNCHANGED <<pipeline, chunksize, target, staging, run, db_manager, made, service,
                   sheet, loaded, daxvars>>

\* db_manager.bulk_insert_dataframe(df, table, truncate_first=...), called
\* with a frame of the sample rows.
bulk_insert ==
    /\ db_manager.id # 0
    /\ \E fault \in InsertFaults, truncate_first \in BOOLEAN,
          df \in {<<>>, <<FrameRow>>} :
          LET res == bulk_insert_dataframe(db_manager, loaded, df, truncate_first, fault)
          IN  /\ Len(res.table) <= MaxLoaded
              /\ loaded' = res.table
              /\ last' = Call("bulk_insert_dataframe", Str(res.result), "none", fault, loaded)
                            @@ [truncate_first |-> truncate_first, df |-> df]
    /\ UNCHANGED <<pipeline, chunksize, target, staging, run, db_manager, made, service,
                   sheet, daxvars>>

---------------------------------------------------------------------------
(* etl/ETL_GSpread.py: GoogleSheetsETL.                                     *)

\* What the environment may do to a call of the Sheets API.
FetchFaults == {"none", "http"}

\* df.columns.str.strip().str.lower().str.replace(' ', '')
\*     .str.replace('[^a-zA-Z0-9_]', '_', regex=True), on the sample headers.
CleanName(h) ==
    CASE h = "Pincode" -> "pincode"
      [] h = " Tier " -> "tier"
      [] OTHER -> h

Widest(rows) ==
    IF rows = <<>> THEN 0
    ELSE CHOOSE w \in {Len(rows[i]) : i \in DOMAIN rows} :
             \A i \in DOMAIN rows : Len(rows[i]) <= w

\* pd.DataFrame(data_rows, columns=headers): a short row is filled up with
\* None; when the widest row has not as many cells as there are headers the
\* constructor raises ValueError.
DataFrame(data_rows, headers) ==
    IF data_rows # <<>> /\ Widest(data_rows) # Len(headers)
    THEN [ok |-> FALSE, columns |-> <<>>, rows |-> <<>>]
    ELSE [ok |-> TRUE, columns |-> headers,
          rows |-> [i \in DOMAIN data_rows |->
                       [c \in DOMAIN headers |->
                           IF c <= Len(data_rows[i]) THEN data_rows[i][c] ELSE Missing]]]

\* fetch_sheet_data(spreadsheet_id): None (ok = FALSE here) when the service
\* was never built, when the API call fails or when the frame cannot be
\* built; an empty frame when the range holds no values; otherwise the rows
\* after the header row under the cleaned header names.
fetch_sheet_data(svc, values, fault) ==
    IF ~svc \/ fault = "http" THEN [ok |-> FALSE, columns |-> <<>>, rows |-> <<>>]
    ELSE IF values = <<>> THEN [ok |-> TRUE, columns |-> <<>>, rows |-> <<>>]
    ELSE LET df == DataFrame(Tail(values), Head(values))
         IN  [df EXCEPT !.columns = [c \in DOMAIN @ |-> CleanName(@[c])]]

\* df.empty: no row or no column.
Empty(df) == df.rows = <<>> \/ df.columns = <<>>

\* The columns of the pincode table that the model keeps.
PincodeColumns == <<"pincode", "tier", "zones">>

\* df.astype(str).replace('nan', None) on one cell.
AsStr(cell) ==
    IF cell = Missing THEN "None" ELSE IF cell = "nan" THEN SqlNull ELSE cell

\* The frame load_pincode_data inserts: the columns of the mapping in its
\* order, a column the sheet does not have filled with None, all as str.
PincodeFrame(df) ==
    [i \in DOMAIN df.rows |->
        [c \in DOMAIN PincodeColumns |->
            IF \E d \in DOMAIN df.columns : df.columns[d] = PincodeColumns[c]
            THEN AsStr(df.rows[i][CHOOSE d \in DOMAIN df.columns :
                                      df.columns[d] = PincodeColumns[c]])
            ELSE AsStr(Missing)]]

\* The frame load_generic_spreadsheet_data inserts (no column mapping).
GenericFrame(df) ==
    [i \in DOMAIN df.rows |-> [c \in DOMAIN df.columns |-> AsStr(df.rows[i][c])]]

\* authenticate(): builds self.service, or logs the error and returns False.
authenticate ==
    /\ db_manager.id # 0
    /\ \E fault \in {"none", "oauth"} :
          /\ service' = IF fault = "none" THEN TRUE ELSE service
          /\ last' = Call("authenticate", Str(fault = "none"), "none", fault, loaded)
    /\ UNCHANGED <<pipeline, chunksize, target, staging, run, db_manager, made, sheet,
                   loaded, daxvars>>

\* load_pincode_data as it would be if it tested the fetched frame for None
\* only.
load_pincode_data_unless_none ==
    /\ db_manager.id # 0
    /\ \E ffault \in FetchFaults, fault \in InsertFaults :
          LET df == fetch_sheet_data(service, sheet, ffault)
              res == bulk_insert_dataframe(db_manager, loaded, PincodeFrame(df), TRUE, fault)
          IN  IF ~df.ok
              THEN /\ loaded' = loaded
                   /\ last' = Call("load_pincode_data", "False", "none", <<ffault, fault>>, loaded)
              ELSE /\ loaded' = res.table
                   /\ last' = Call("load_pincode_data", Str(res.result), "none",
                                   <<ffault, fault>>, loaded)
    /\ UNCHANGED <<pipeline, chunksize, target, staging, run, db_manager, made, service,
                   sheet, daxvars>>

\* load_pincode_data(spreadsheet_id): fetch, give up on None or an empty
\* frame, else build the frame, truncate the table and insert.  The whole
\* body is in a handler that returns False.
load_pincode_data ==
    /\ db_manager.id # 0
    /\ \E ffault \in FetchFaults, fault \in InsertFaults :
          LET df == fetch_sheet_data(service, sheet, ffault)
              res == bulk_insert_dataframe(db_manager, loaded, PincodeFrame(df), TRUE, fault)
          IN  IF ~df.ok \/ Empty(df)
              THEN /\ loaded' = loaded
                   /\ last' = Call("load_pincode_data", "False", "none", <<ffault, fault>>, loaded)
              ELSE /\ loaded' = res.table
                   /\ last' = Call("load_pincode_data", Str(res.result), "none",
                                   <<ffault, fault>>, loaded)
    /\ UNCHANGED <<pipeline, chunksize, target, staging, run, db_manager, made, service,
                   sheet, daxvars>>

\* load_generic_spreadsheet_data(spreadsheet_id, target_table,
\* truncate_first=...): the same without the column selection.
load_generic_spreadsheet_data ==
    /\ db_manager.id # 0
    /\ \E ffault \in FetchFaults, fault \in InsertFaults, truncate_first \in BOOLEAN :
          LET df == fetch_sheet_data(service, sheet, ffault)
              res == bulk_insert_dataframe(db_manager, loaded, GenericFrame(df),
                                           truncate_first, fault)
          IN  IF ~df.ok \/ Empty(df)
              THEN /\ loaded' = loaded
                   /\ last' = Call("load_generic_spreadsheet_data", "False", "none",
                                   <<ffault, fault>>, loaded)
              ELSE /\ Len(res.table) <= MaxLoaded
                   /\ loaded' = res.table
                   /\ last' = Call("load_generic_spreadsheet_data", Str(res.result), "none",
                                   <<ffault, fault>>, loaded)
    /\ UNCHANGED <<pipeline, chunksize, target, staging, run, db_manager, made, service,
                   sheet, daxvars>>

\* The spreadsheet load: any sequence of calls into db_util and
\* GoogleSheetsETL on one sheet, in an environment where every call to the
\* database and to the Sheets API may fail.
InitSheets ==
    /\ PipelinesIdle
    /\ DaxIdle
    /\ db_manager = NoManager
    /\ made = 0
    /\ service = FALSE
    /\ sheet \in Sheets
    /\ loaded \in {<<>>, <<OldLoaded>>}
    /\ last = NoCall
NextSheets ==
    \/ get_db_manager
    \/ connect_again
    \/ get_session
    \/ bulk_insert
    \/ authenticate
    \/ load_pincode_data
    \/ load_generic_spreadsheet_data
SpecSheets == InitSheets /\ [][NextSheets]_vars

---------------------------------------------------------------------------
(* consolidate_dax_queries.py *)

\* Most data rows of the input sheet.
MaxDaxRows == 3

\* The cells of a data row after str(value) if value is not None else "":
\* columns 1 to 3 of the sheet.
DaxRows == [table : {"", "T"}, name : {"", "M", "N"}, content : {"", "a", "b"}]

\* "\n".join(parts): the parts with a line break between each two.
RECURSIVE Join(_)
Join(parts) ==
    IF parts = <<>> THEN <<>>
    ELSE IF Len(parts) = 1 THEN <<parts[1]>>
    ELSE <<parts[1], "\n">> \o Join(Tail(parts))

\* The loop over the data rows.  st holds current_table_name,
\* current_measure_name, current_dax_parts, the rows written to the output
\* sheet (row output_row of the sheet is written next) and output_row.
RECURSIVE DaxLoop(_, _)
DaxLoop(rows, st) ==
    IF rows = <<>> THEN st
    ELSE LET row == Head(rows)
         IN  IF row.table # "" /\ row.name # ""
             THEN LET saved ==
                          IF st.table # "" /\ st.name # ""
                          THEN [st EXCEPT !.written = Append(@, [table |-> st.table,
                                                                  name |-> st.name,
                                                                  measures |-> Join(st.parts)]),
                                          !.output_row = @ + 1]
                          ELSE st
                  IN  DaxLoop(Tail(rows),
                              [saved EXCEPT !.table = row.table, !.name = row.name,
                                            !.parts = IF row.content # "" THEN <<row.content>>
                                                      ELSE <<>>])
             ELSE DaxLoop(Tail(rows),
                          IF row.content # "" THEN [st EXCEPT !.parts = Append(@, row.content)]
                          ELSE st)

\* consolidate_dax_queries(file_path, output_path): the loop, then the last
\* measure, then the summary: total_measures = output_row - 1.
consolidate_dax_queries(rows) ==
    LET st == DaxLoop(rows, [table |-> "", name |-> "", parts |-> <<>>,
                             written |-> <<>>, output_row |-> 2])
    IN  [written |-> TRUE,
         rows |-> IF st.table # "" /\ st.name # ""
                  THEN Append(st.written, [table |-> st.table, name |-> st.name,
                                           measures |-> Join(st.parts)])
                  ELSE st.written,
         total |-> st.output_row - 1]

\* The script is run on the workbook.
consolidate ==
    /\ ~output.written
    /\ output' = consolidate_dax_queries(workbook)
    /\ UNCHANGED <<pipeline, chunksize, target, staging, run, sheetvars, workbook>>

\* One run of the script for each input sheet.
InitDax ==
    /\ PipelinesIdle
    /\ SheetsIdle
    /\ workbook \in SeqsUpTo(DaxRows, MaxDaxRows)
    /\ output = NoOutput
NextDax == consolidate
SpecDax == InitDax /\ [][NextDax]_vars

---------------------------------------------------------------------------
(* What the claims speak of. *)

\* The rows of table whose natural key is k, in table order.
WithKey(table, k) == SelectSeq(table, LAMBDA t : Key(t) = k)

\* The natural key k is the key of some row of table.
HasKey(table, k) == \E i \in DOMAIN table : Key(table[i]) = k

\* How often row x is in table.
Copies(table, x) == Cardinality({i \in DOMAIN table : table[i] = x})

\* Every row a table of the model can hold.
AnyRows == ExtRows \cup OldRows \cup {MkRow(k, NULL) : k \in Keys}

\* Run r of the logistics pipeline has ended and both of its reconcile
\* statements succeeded.
Reconciled(r) ==
    /\ pipeline = "logistics"
    /\ run[r].pc = "done"
    /\ run[r].delete = "ok"
    /\ run[r].insert = "ok"

---------------------------------------------------------------------------
(* C1 *)

\* C1 as stated: in the logistics pipeline, after delete_rows and insert_rows
\* have both succeeded, for every natural key in the staging table the target
\* holds exactly one row with that key, and it is the staged row.
C1_OneRowPerStagedKey ==
    \A r \in Runs : Reconciled(r) =>
        \A i \in DOMAIN staging :
            /\ Len(WithKey(target, Key(staging[i]))) = 1
            /\ WithKey(target, Key(staging[i])) = <<staging[i]>>

\* C1 as amended: in the logistics pipeline, after delete_rows and insert_rows
\* have both succeeded, for every natural key in the staging table the rows
\* of the target with that key are exactly the staged rows with that key, as
\* many as are staged (one row when the key is staged once): no old row with
\* that key is left beside them.
C1_StagedRowsReplaceOld ==
    \A r \in Runs : Reconciled(r) =>
        \A i \in DOMAIN staging :
            LET k == Key(staging[i])
            IN  /\ WithKey(target, k) = WithKey(staging, k)
                /\ Len(WithKey(staging, k)) = 1 => WithKey(target, k) = <<staging[i]>>

\* An old row and a staged row with the same key, after both statements.
C1_Witness ==
    \E r \in Runs :
        /\ Reconciled(r)
        /\ \E i \in DOMAIN staging :
              /\ HasKey(run[r].tgt0, Key(staging[i]))
              /\ Len(WithKey(staging, Key(staging[i]))) = 1

---------------------------------------------------------------------------
(* C2 *)

---------------------------------------------------------------------------
(* C3 *)

\* The rows of table the upsert takes for rows with natural key k.
Conflicting(table, k) ==
    {i \in DOMAIN table : SqlEq(ConflictKey(table[i]), ConflictKey(MkRow(k, ValOld)))}

\* The target table when run r had ended (the next run starts from it).
TargetAfter(r) == IF r + 1 \in Runs /\ run[r + 1].pc # "idle" THEN run[r + 1].tgt0 ELSE target

\* Run r of the order pipeline has ended, its upsert succeeded, and the
\* staging table it read held a row with natural key k.
Upserted(r, k) ==
    /\ pipeline = "order"
    /\ run[r].pc = "done"
    /\ run[r].upsert = "ok"
    /\ HasKey(run[r].committed, k)

\* C3: in the order pipeline, when the target has no row with key K, a run
\* that stages a row with key K inserts it, and a later run that stages a row
\* with the same key updates it and adds no second row: the target holds one
\* row with key K after each of the two runs, after the second run with the
\* values staged in the second run.
C3_InsertThenUpdateInPlace ==
    pipeline = "order" =>
    \A k \in Keys :
        (Upserted(1, k) /\ Conflicting(run[1].tgt0, k) = {}) =>
            /\ Cardinality(Conflicting(TargetAfter(1), k)) = 1
            /\ Upserted(2, k) =>
                  /\ Cardinality(Conflicting(target, k)) = 1
                  /\ \A i \in Conflicting(target, k) :
                        \E j \in DOMAIN run[2].committed :
                            /\ Key(run[2].committed[j]) = k
                            /\ target[i] = run[2].committed[j]

\* A key the target did not hold, staged by both runs with different values.
C3_Witness ==
    \E k \in Keys :
        /\ Upserted(1, k) /\ Upserted(2, k)
        /\ Conflicting(run[1].tgt0, k) = {}
        /\ WithKey(run[1].committed, k) # WithKey(run[2].committed, k)
        /\ Len(target) = Len(TargetAfter(1))

---------------------------------------------------------------------------
(* C4 *)

\* C4: after a successful upsert, for every staged row the target holds a
\* row that equals it on every column the statement inserts, and every
\* target row whose key matches no staged row keeps its values.
C4_StagedValuesWin ==
    \A r \in Runs :
        (pipeline = "order" /\ run[r].pc = "done" /\ run[r].upsert = "ok") =>
            /\ \A i \in DOMAIN staging : \E j \in DOMAIN target : target[j] = staging[i]
            /\ \A j \in DOMAIN run[r].tgt0 :
                  (\A i \in DOMAIN staging :
                      ~ SqlEq(ConflictKey(run[r].tgt0[j]), ConflictKey(staging[i])))
                  => target[j] = run[r].tgt0[j]

---------------------------------------------------------------------------
(* C5 *)

\* Every step of run r was executed and succeeded.
CleanRun(r) ==
    /\ run[r].pc = "done"
    /\ run[r].truncate = "ok"
    /\ run[r].fetch = "ok"
    /\ run[r].loadfails = 0
    /\ IF pipeline = "logistics"
       THEN run[r].delete = "ok" /\ run[r].insert = "ok"
       ELSE run[r].upsert = "ok"

\* C5: two runs in succession on the same extraction result, with no step
\* failing, leave the target table as one run leaves it.
C5_RerunIdempotent ==
    (CleanRun(1) /\ CleanRun(2) /\ run[2].ext = run[1].ext) => target = TargetAfter(1)

\* The same for the logistics pipeline alone.
C5_RerunIdempotentLogistics == pipeline = "logistics" => C5_RerunIdempotent

---------------------------------------------------------------------------
(* C6 *)

\* Run r is past its stage phase, and its truncate, its extraction and every
\* one of its batch loads succeeded.
Staged(r) ==
    /\ run[r].pc \in {"delete", "insert", "upsert", "done"}
    /\ run[r].truncate = "ok"
    /\ run[r].fetch = "ok"
    /\ run[r].loadfails = 0

\* No run after r has started.
Latest(r) == \A q \in Runs : q > r => run[q].pc = "idle"

\* Row s is row e with every empty string read back as NULL.
EmptyAsNull(e, s) ==
    /\ Len(s) = Len(e)
    /\ \A c \in DOMAIN e : s[c] = IF e[c] = <<>> THEN NULL ELSE e[c]

\* C6 as stated: after a run in which the truncate, the extraction and every
\* batch load succeeded, the staging table holds exactly the rows the
\* extraction query returned, each once, and no row of an earlier run; its
\* row count is the extractor's row count.
C6_StagingHoldsExtraction ==
    \A r \in Runs : (Staged(r) /\ Latest(r)) =>
        /\ staging = run[r].ext
        /\ Len(staging) = Len(run[r].ext)

\* C6, the part that holds: after such a run the staging table holds one row
\* for each extracted row, in order, equal to it but for empty strings, which
\* arrive as NULL, and no row of an earlier run.
C6_StagingRowCount ==
    \A r \in Runs : (Staged(r) /\ Latest(r)) =>
        /\ Len(staging) = Len(run[r].ext)
        /\ \A i \in DOMAIN staging : EmptyAsNull(run[r].ext[i], staging[i])

---------------------------------------------------------------------------
(* C7 *)

---------------------------------------------------------------------------
(* C8 *)

\* C8: when the extraction returns zero rows, the staging table is empty
\* after the stage phase, and the delete-then-insert reconciliation leaves
\* the target as it was when the run started: no row deleted, none changed,
\* none added.
C8_EmptyExtractionChangesNothing ==
    \A r \in Runs :
        ( /\ pipeline = "logistics"
          /\ Latest(r)
          /\ run[r].ext = <<>>
          /\ run[r].source = "ok"
          /\ run[r].pc \in {"delete", "insert", "done"} ) =>
            /\ staging = <<>>
            /\ target = run[r].tgt0

\* A run with an empty extraction over a target and a staging table that
\* both held rows, after both statements succeeded.
C8_Witness ==
    \E r \in Runs :
        /\ Reconciled(r)
        /\ run[r].ext = <<>>
        /\ run[r].source = "ok"
        /\ run[r].stg0 # <<>>
        /\ run[r].tgt0 # <<>>

---------------------------------------------------------------------------
(* C9 *)

\* Run r logged the line.
Logged(r, line) == \E i \in DOMAIN run[r].log : run[r].log[i] = line

\* Every statement of the reconcile step of run r was executed.
ReconcileExecuted(r) ==
    IF pipeline = "logistics"
    THEN run[r].delete # "none" /\ run[r].insert # "none"
    ELSE run[r].upsert # "none"

\* No statement of the reconcile step of run r was executed.
ReconcileSkipped(r) ==
    run[r].delete = "none" /\ run[r].insert = "none" /\ run[r].upsert = "none"

\* The failures of the stage phase and of the reconcile statements of run r
\* are logged.
LaterFailuresLogged(r) ==
    /\ run[r].fetch = "fail" => Logged(r, "ERROR Error during fetch and insert")
    /\ run[r].loadfails > 0 => Logged(r, "ERROR Error inserting chunk")
    /\ run[r].delete = "fail" => Logged(r, "ERROR Error Logistics rows deleted")
    /\ run[r].insert = "fail" => Logged(r, "ERROR Error Logistics rows insert")
    /\ run[r].upsert = "fail" => Logged(r, "ERROR Error during Update and Insert")

\* C9 as stated: when a step of a run fails (truncate, extract and stage,
\* reconcile) the failure is logged and every later step of the run is still
\* executed, the truncate included.
C9_EveryFailureLoggedLaterStepsRun ==
    \A r \in Runs : run[r].pc = "done" =>
        /\ LaterFailuresLogged(r)
        /\ run[r].truncate = "fail" => Logged(r, "ERROR Error executing SQL query")
        /\ run[r].fetch # "none"
        /\ ReconcileExecuted(r)

\* C9 as amended: a failure of the extract-and-stage step or of a reconcile
\* statement is logged and every later step of the run is still executed; a
\* failure of the staging truncate is logged too, but it ends the run: no
\* later step is executed and both tables stay as they were.
C9_FailuresLoggedTruncateEndsRun ==
    \A r \in Runs : run[r].pc = "done" =>
        /\ LaterFailuresLogged(r)
        /\ run[r].truncate \in {"ok", "fail"}
        /\ run[r].truncate = "ok" => run[r].fetch # "none" /\ ReconcileExecuted(r)
        /\ run[r].truncate = "fail" =>
              /\ Logged(r, "ERROR Error executing SQL query")
              /\ Logged(r, "ERROR An error occurred during data insertion")
              /\ run[r].fetch = "none"
              /\ run[r].handed = <<>>
              /\ ReconcileSkipped(r)
              /\ Latest(r) => staging = run[r].stg0 /\ target = run[r].tgt0

\* A run whose extraction failed and whose first reconcile statement failed,
\* and that executed the statement after it.
C9_Witness ==
    \E r \in Runs :
        /\ run[r].pc = "done"
        /\ run[r].fetch = "fail"
        /\ run[r].delete = "fail"
        /\ run[r].insert = "ok"

---------------------------------------------------------------------------
(* C10 *)

\* C10 as stated: when the source connection or the extraction query fails
\* after k >= 0 batches were loaded, the k committed batches stay in the
\* staging table, no later batch is loaded, the error is logged and the
\* reconcile step of the same run still executes.
C10_SourceFailureStillReconciles ==
    \A r \in Runs : (run[r].source = "fail" /\ run[r].pc \in {"done", "crashed"}) =>
        /\ Logged(r, "ERROR Error during fetch and insert")
        /\ ReconcileExecuted(r)
        /\ Latest(r) => staging = run[r].committed
        /\ Len(run[r].handed) = run[r].returned

\* C10, the part that holds: the same for a failure of the source inside
\* fetch_and_insert_data (the extraction query of either pipeline, the
\* connection of the order pipeline).
C10_SourceFailureInsideFetch ==
    \A r \in Runs :
        (run[r].source = "fail" /\ run[r].fetch = "fail" /\ run[r].pc = "done") =>
            /\ Logged(r, "ERROR Error during fetch and insert")
            /\ ReconcileExecuted(r)
            /\ Latest(r) => staging = run[r].committed
            /\ Len(run[r].handed) = run[r].returned

---------------------------------------------------------------------------
(* C11 *)

\* The rows of the batches whose call of insert_data_batch ended with ok.
RECURSIVE RowsOfLoaded(_, _)
RowsOfLoaded(handed, outcome) ==
    IF handed = <<>> \/ outcome = <<>> THEN <<>>
    ELSE (IF Head(outcome) = "ok" THEN Head(handed) ELSE <<>>)
             \o RowsOfLoaded(Tail(handed), Tail(outcome))

\* Run r is past its batch loop, the truncate succeeded and the source did
\* not fail.
LoopEnded(r) ==
    /\ run[r].pc \in {"delete", "insert", "upsert", "done"}
    /\ run[r].truncate = "ok"
    /\ run[r].source # "fail"

\* C11 as stated: when insert_data_batch fails for a batch, at whatever
\* point, no row of that batch is committed to the staging table, the error
\* is logged, and the loop goes on to load every following batch.
C11_FailedBatchSkippedLoopGoesOn ==
    \A r \in Runs : LoopEnded(r) =>
        /\ run[r].loadfails > 0 => Logged(r, "ERROR Error inserting chunk")
        /\ Latest(r) => Len(staging) = Len(RowsOfLoaded(run[r].handed, run[r].outcome))
        /\ Flatten(run[r].handed) = run[r].ext

\* C11, the part that holds: no row of a failed batch is committed and the
\* failure is logged; and when the failure is not that of opening the
\* destination connection, the loop goes on to every following batch.
C11_FailedBatchNotCommitted ==
    \A r \in Runs : LoopEnded(r) =>
        /\ run[r].loadfails > 0 => Logged(r, "ERROR Error inserting chunk")
        /\ Latest(r) => Len(staging) = Len(RowsOfLoaded(run[r].handed, run[r].outcome))
        /\ Flatten(run[r].handed) # run[r].ext =>
              /\ run[r].fetch = "fail"
              /\ run[r].outcome[Len(run[r].outcome)] = "raised"
              /\ Logged(r, "ERROR Error during fetch and insert")

---------------------------------------------------------------------------
(* C12 *)

\* A step of run r failed.
StepFailed(r) ==
    \/ run[r].truncate = "fail"
    \/ run[r].fetch = "fail"
    \/ run[r].loadfails > 0
    \/ run[r].upsert = "fail"

Completed == "INFO ATP Order Stage Data Pipeline completed successfully!"

\* C12 as stated: when a step of the order pipeline fails, the failure
\* reaches main, which re-raises it: the process does not exit with 0 and
\* the completion message is not logged for that run.
C12_StepFailureFailsProcess ==
    pipeline = "order" =>
        \A r \in Runs : (run[r].pc = "done" /\ StepFailed(r)) =>
            /\ run[r].exit # "0"
            /\ ~Logged(r, Completed)

\* C12, what holds instead: every order run that entered run() ends with the
\* completion message and exit code 0, whichever of its steps failed.
C12_RunAlwaysExitsZero ==
    pipeline = "order" =>
        \A r \in Runs : run[r].pc = "done" =>
            /\ run[r].exit = "0"
            /\ run[r].log[Len(run[r].log)] = Completed

---------------------------------------------------------------------------
(* C13 *)

\* s is a date written as YYYY-MM-DD: four digits, two digits, two digits,
\* separated by "-", naming a day of the calendar.
IsIsoDate(s) ==
    /\ Len(s) = 10
    /\ s[5] = "-" /\ s[8] = "-"
    /\ AllDigits(SubSeq(s, 1, 4)) /\ AllDigits(SubSeq(s, 6, 7)) /\ AllDigits(SubSeq(s, 9, 10))
    /\ Number(SubSeq(s, 1, 4)) >= 1
    /\ Number(SubSeq(s, 6, 7)) \in 1..12
    /\ Number(SubSeq(s, 9, 10)) \in 1..DaysIn(Number(SubSeq(s, 1, 4)), Number(SubSeq(s, 6, 7)))

\* Run r ended in main() before any step of the pipeline.
ExitedBeforeSteps(r) ==
    /\ run[r].pc = "rejected"
    /\ run[r].exit = "1"
    /\ run[r].truncate = "none"
    /\ run[r].fetch = "none"
    /\ run[r].handed = <<>>
    /\ run[r].upsert = "none"
    /\ staging = run[r].stg0
    /\ target = run[r].tgt0

\* C13 as stated: when the argument of the order script is not a valid
\* YYYY-MM-DD date, main exits with code 1 before any step of the pipeline;
\* a valid argument goes unchanged into the extraction query; with no
\* argument the current date is used.
C13_InvalidDateExitsBeforeSteps ==
    pipeline = "order" =>
        \A r \in Runs : run[r].pc # "idle" =>
            IF run[r].argv = NoArgv THEN run[r].target_date = strftime(now)
            ELSE IF IsIsoDate(run[r].argv[1]) THEN run[r].target_date = run[r].argv[1]
            ELSE ExitedBeforeSteps(r)

\* C13, what holds instead: main exits with code 1 before any step exactly
\* when strptime raises; every argument strptime accepts goes unchanged into
\* the query, also one that is not written as YYYY-MM-DD.
C13_ExitsWhenStrptimeRaises ==
    pipeline = "order" =>
        \A r \in Runs : run[r].pc # "idle" =>
            IF run[r].argv = NoArgv THEN run[r].target_date = strftime(now)
            ELSE IF strptime(run[r].argv[1])
                 THEN run[r].target_date = run[r].argv[1] /\ run[r].pc # "rejected"
            ELSE ExitedBeforeSteps(r)

---------------------------------------------------------------------------
(* C14 *)

\* Run r takes a step in which the status of the named step changes from
\* none: the step is executed.
Executes(r, step) == run[r][step] = "none" /\ run'[r][step] # "none"

\* C14: every run follows the one path truncate, batch loads, reconcile.  A
\* batch is handed to insert_data_batch only after the truncate has executed
\* (and succeeded); a reconcile statement starts only after the batch loop
\* has ended, with no call of insert_data_batch in progress; in the
\* logistics pipeline insert_rows starts only after delete_rows; and when
\* the batch loop ends the run goes on to the reconcile step, however many
\* rows were staged.
C14_SinglePath ==
    [][\A r \in Runs :
          /\ Len(run'[r].handed) > Len(run[r].handed) => run[r].truncate = "ok"
          /\ (Executes(r, "delete") \/ Executes(r, "insert") \/ Executes(r, "upsert")) =>
                /\ run[r].fetch \in {"ok", "fail"}
                /\ run[r].returned = Len(run[r].handed)
                /\ run[r].chunk = <<>>
          /\ Executes(r, "insert") => run[r].delete \in {"ok", "fail"}
          /\ Executes(r, "fetch") =>
                run'[r].pc = (IF pipeline = "logistics" THEN "delete" ELSE "upsert")
          /\ run[r].pc = "delete" => run'[r].pc \in {"delete", "insert"}
      ]_vars

\* A logistics run that handed over a batch, staged no row of it, and
\* executed delete_rows and then insert_rows.
C14_Witness ==
    \E r \in Runs :
        /\ pipeline = "logistics"
        /\ run[r].pc = "done"
        /\ run[r].handed # <<>>
        /\ run[r].committed = <<>>
        /\ staging = <<>>
        /\ run[r].delete = "ok"
        /\ run[r].insert = "ok"

---------------------------------------------------------------------------
(* C15 *)

\* C15 as stated: in every state of an order run, also after a failure at
\* any point, every key that was in the target before the run is still in
\* it (the key as the upsert compares it); the upsert is applied completely
\* or not at all, and the run never removes a target row.
C15_TargetKeysKept ==
    pipeline = "order" =>
        \A r \in Runs : (run[r].pc # "idle" /\ Latest(r)) =>
            /\ \A i \in DOMAIN run[r].tgt0 :
                  \E j \in DOMAIN target : ConflictKey(target[j]) = ConflictKey(run[r].tgt0[i])
            /\ Len(target) >= Len(run[r].tgt0)
            /\ run[r].upsert # "ok" => target = run[r].tgt0

\* C15, the part that holds: the upsert is applied completely or not at all
\* and no state of the run has fewer target rows than the run started with.
C15_NoTargetRowRemoved ==
    pipeline = "order" =>
        \A r \in Runs : (run[r].pc # "idle" /\ Latest(r)) =>
            /\ Len(target) >= Len(run[r].tgt0)
            /\ run[r].upsert # "ok" => target = run[r].tgt0
            /\ run[r].upsert = "ok" => target = InsertOnConflict(run[r].tgt0, staging).table

---------------------------------------------------------------------------
(* C16 *)

\* Run r of the logistics pipeline stopped between the two statements: the
\* delete has committed and the insert has not (it has not run yet, which is
\* where a crash leaves the run, or it failed).
StoppedAfterDelete(r) ==
    /\ pipeline = "logistics"
    /\ run[r].delete = "ok"
    /\ \/ run[r].pc = "insert"
       \/ run[r].pc = "done" /\ run[r].insert = "fail"

\* C16: delete_rows and insert_rows commit independently: when the run stops
\* after the delete has committed and before the insert commits, the delete
\* stays, and the target holds no row for any staged key, also for the keys
\* it held a row for before the run.
C16_DeleteCommitsAlone ==
    \A r \in Runs : (StoppedAfterDelete(r) /\ Latest(r)) =>
        /\ \A i \in DOMAIN staging : ~HasKey(target, Key(staging[i]))
        /\ \A i \in DOMAIN run[r].tgt0 :
              HasKey(staging, Key(run[r].tgt0[i])) => ~HasKey(target, Key(run[r].tgt0[i]))
        /\ Len(target) = Len(run[r].tgt0)
               - Cardinality({i \in DOMAIN run[r].tgt0 : HasKey(staging, Key(run[r].tgt0[i]))})

\* A run that ended with the delete committed and the insert failed, and a
\* key of the target before the run that is staged and now missing.
C16_Witness ==
    \E r \in Runs :
        /\ StoppedAfterDelete(r)
        /\ run[r].pc = "done"
        /\ \E i \in DOMAIN run[r].tgt0 :
              /\ HasKey(staging, Key(run[r].tgt0[i]))
              /\ ~HasKey(target, Key(run[r].tgt0[i]))

---------------------------------------------------------------------------
(* C17 *)

\* C17: nothing excludes two runs of a pipeline from each other: in every
\* state, whatever the other run is doing and whatever the staging table
\* holds, a run can start, can truncate the staging table, can pull its
\* next batch or end its loop, and can execute its delete and its insert.
C17_NothingExcludesRuns ==
    \A r \in Runs :
        /\ run[r].pc = "idle" => ENABLED start(r, NoFaults)
        /\ run[r].pc = "truncate" => ENABLED truncate(r, NoFaults)
        /\ run[r].pc = "fetch" => ENABLED fetch_and_insert_data(r, NoFaults)
        /\ run[r].pc = "delete" => ENABLED delete_rows(r, NoFaults)
        /\ run[r].pc = "insert" => ENABLED insert_rows(r, NoFaults)

\* Both runs of the logistics pipeline extracted a row once, every step of
\* both succeeded, and the target ends with the row twice: the staging
\* table held the rows of both runs when a run reconciled.
C17_Witness ==
    /\ pipeline = "logistics"
    /\ \A r \in Runs : Reconciled(r) /\ run[r].fetch = "ok"
    /\ \E i \in DOMAIN target :
          /\ \A r \in Runs : Copies(run[r].ext, target[i]) <= 1
          /\ Copies(target, target[i]) > 1

\* A run reconciles (its loop has ended, its reconcile step has not) while
\* the staging table lacks rows it committed: the other run truncated it.
C17_ReconcilesOnTruncatedStaging ==
    \E r \in Runs :
        /\ run[r].pc \in {"delete", "upsert"}
        /\ run[r].fetch = "ok"
        /\ Len(staging) < Len(run[r].committed)

\* A run reconciles while the other run is in the middle of its batch loop.
C17_ReconcilesOnPartLoad ==
    \E r, q \in Runs :
        /\ run[r].pc \in {"delete", "upsert"}
        /\ run[q].pc \in {"fetch", "load"}
        /\ run[q].committed # <<>>
        /\ Len(run[q].committed) < Len(run[q].ext)

\* The staging table holds rows committed by both runs.
C17_StagingOfBothRuns ==
    /\ \A r \in Runs : run[r].committed # <<>>
    /\ Len(staging) = Len(run[1].committed) + Len(run[2].committed)

\* Both runs ended with every step succeeded and the target lacks a row
\* that a run extracted.
C17_TargetWithoutExtractedRow ==
    /\ \A r \in Runs : run[r].pc = "done" /\ run[r].fetch = "ok"
                         /\ run[r].delete # "fail" /\ run[r].insert # "fail"
                         /\ run[r].upsert # "fail"
    /\ \E r \in Runs : \E i \in DOMAIN run[r].ext :
          ~ \E j \in DOMAIN target : Key(target[j]) = Key(run[r].ext[i])

---------------------------------------------------------------------------
(* C18 *)

\* The key fields of rows t and s are the same but for letter case.
SameFolded(t, s) == \A c \in KeyCols : lower(t[c]) = lower(s[c])

\* The key fields of rows t and s differ, and only in letter case.
CaseVariant(t, s) == Key(t) # Key(s) /\ SameFolded(t, s)

\* Staged row j is the only staged row that the upsert takes for target row t.
OnlyConflict(t, j) ==
    \A m \in DOMAIN staging \ {j} : ~SqlEq(ConflictKey(staging[m]), ConflictKey(t))

\* C18: the upsert takes two rows whose key fields differ only in letter
\* case for the same key: after a successful upsert of a staged row that is
\* a case variant of a target row (and the only staged row with its key)
\* there is one target row with that key, the old one in its place, holding
\* the staged values.  Delete-then-insert compares the key columns exactly:
\* a staged case variant does not delete the target row (no staged row
\* having exactly its key), and both rows are in the target afterwards.
C18_CaseFoldedUpsertExactDelete ==
    \A r \in Runs : (run[r].pc = "done" /\ Latest(r)) =>
        \A i \in DOMAIN run[r].tgt0 : \A j \in DOMAIN staging :
            CaseVariant(run[r].tgt0[i], staging[j]) =>
                /\ (pipeline = "order" /\ run[r].upsert = "ok"
                                        /\ OnlyConflict(run[r].tgt0[i], j)) =>
                      /\ Cardinality({n \in DOMAIN target :
                                         SameFolded(target[n], staging[j])}) = 1
                      /\ SameFolded(target[i], staging[j])
                      /\ target[i][Col("other")] = staging[j][Col("other")]
                /\ (Reconciled(r) /\ ~HasKey(staging, Key(run[r].tgt0[i]))) =>
                      /\ Copies(target, run[r].tgt0[i]) >= 1
                      /\ Copies(target, staging[j]) >= 1

\* A logistics run that reconciled a staged case variant of a target row.
C18_Witness ==
    \E r \in Runs :
        /\ Reconciled(r)
        /\ \E i \in DOMAIN run[r].tgt0 : \E j \in DOMAIN staging :
              /\ CaseVariant(run[r].tgt0[i], staging[j])
              /\ ~HasKey(staging, Key(run[r].tgt0[i]))

\* An order run that upserted a staged case variant of a target row.
C18_WitnessUpsert ==
    \E r \in Runs :
        /\ pipeline = "order"
        /\ run[r].pc = "done"
        /\ run[r].upsert = "ok"
        /\ \E i \in DOMAIN run[r].tgt0 : \E j \in DOMAIN staging :
              /\ CaseVariant(run[r].tgt0[i], staging[j])
              /\ OnlyConflict(run[r].tgt0[i], j)

---------------------------------------------------------------------------
(* C19 *)

\* The truncate of run r has succeeded and the run has loaded nothing yet.
JustTruncated(r) ==
    /\ run[r].truncate = "ok"
    /\ run[r].pc = "fetch"
    /\ run[r].returned = 0

---------------------------------------------------------------------------
(* C20 *)

\* The destination connections open after the first n events.
RECURSIVE OpenAfter(_, _)
OpenAfter(events, n) ==
    IF n = 0 THEN 0
    ELSE OpenAfter(events, n - 1) + (IF events[n] = "open" THEN 1 ELSE -1)

\* The calls of run r that open a destination connection: the batch loads
\* and the SQL statements.
DestCalls(r) ==
    run[r].returned
        + Cardinality({st \in {"truncate", "delete", "insert", "upsert"} : run[r][st] # "none"})

---------------------------------------------------------------------------
(* C21 *)

\* The SQL statements run r has attempted: execute_sql_psycopg2 logs one of
\* these two lines in every call.
SqlAttempts(r) ==
    Cardinality({i \in DOMAIN run[r].log :
                    run[r].log[i] \in {"INFO SQL query executed successfully",
                                       "ERROR Error executing SQL query"}})

\* The steps of run r that execute one SQL statement and have been executed.
SqlStepsExecuted(r) ==
    {st \in {"truncate", "delete", "insert", "upsert"} : run[r][st] # "none"}

\* The attempts of run r to load a batch: every attempt ends in one outcome.
LoadAttempts(r) == Len(run[r].outcome)

\* C21: nothing is retried.  Within one run the truncate and each reconcile
\* statement is attempted once at most (as many SQL attempts as SQL steps
\* executed, each step at most once, failed or not), and each batch of the
\* result is handed to insert_data_batch once, in order, and attempted once,
\* also after it failed.
C21_NothingRetried ==
    \A r \in Runs :
        /\ SqlAttempts(r) = Cardinality(SqlStepsExecuted(r))
        /\ Len(run[r].handed) <= Len(Batches(run[r].ext, chunksize))
        /\ \A i \in DOMAIN run[r].handed :
              run[r].handed[i] = Batches(run[r].ext, chunksize)[i]
        /\ LoadAttempts(r) = run[r].returned
        /\ LoadAttempts(r) + (IF run[r].pc = "load" THEN 1 ELSE 0) = Len(run[r].handed)

\* A run that ended after a batch load and a reconcile statement failed.
C21_Witness ==
    \E r \in Runs :
        /\ run[r].pc = "done"
        /\ Len(run[r].handed) = 2
        /\ run[r].outcome = <<"fail", "ok">>
        /\ run[r].delete = "fail"
        /\ run[r].insert = "ok"
        /\ SqlAttempts(r) = 3

---------------------------------------------------------------------------
(* C22 *)

\* The batches run r has still to pull, plus the steps after the loop.
StepsLeft(r) ==
    CASE run[r].pc = "idle" -> MaxRows * 2 + 5
      [] run[r].pc = "truncate" ->
             (Len(Batches(run[r].ext, chunksize)) - run[r].pulled) * 2 + 4
      [] run[r].pc = "fetch" ->
             (Len(Batches(run[r].ext, chunksize)) - run[r].pulled) * 2 + 3
      [] run[r].pc = "load" ->
             (Len(Batches(run[r].ext, chunksize)) - run[r].pulled) * 2 + 4
      [] run[r].pc = "delete" -> 2
      [] run[r].pc \in {"insert", "upsert"} -> 1
      [] OTHER -> 0

\* C22: for a finite extraction result a run that has entered run() ends
\* after finitely many steps under every combination of step failures:
\* run() returns to its caller.
C22_RunReturns == (run[1].pc = "truncate") ~> (run[1].pc = "done")

\* C22, the finitely many steps: every step of a run brings it nearer to its
\* end, and a run that has ended takes no step.
C22_EveryStepNearerToEnd ==
    [][\A r \in Runs : run'[r] # run[r] =>
            /\ ~Ended(r)
            /\ StepsLeft(r)' < StepsLeft(r)]_vars

\* A run in which the source failed after the first batch and both reconcile
\* statements failed, and which has returned.
C22_Witness ==
    \E r \in Runs :
        /\ run[r].pc = "done"
        /\ run[r].truncate = "ok"
        /\ Len(run[r].handed) = 1
        /\ run[r].fetch = "fail"
        /\ run[r].delete = "fail"
        /\ run[r].insert = "fail"

---------------------------------------------------------------------------
(* C23 *)

\* Run r stands at a step that is one call of execute_sql_psycopg2.
AtSqlStep(r) == run[r].pc \in {"truncate", "delete", "insert", "upsert"}

\* The table the statement of that step writes, and what the statement
\* makes of it when it executes.
SqlTable(r) == IF run[r].pc = "truncate" THEN staging ELSE target
SqlEffect(r) ==
    CASE run[r].pc = "truncate" -> [ok |-> TRUE, table |-> Truncate(staging)]
      [] run[r].pc = "delete" -> [ok |-> TRUE, table |-> DeleteUsing(target, staging)]
      [] run[r].pc = "insert" -> [ok |-> TRUE, table |-> InsertSelect(target, staging)]
      [] run[r].pc = "upsert" -> InsertOnConflict(target, staging)

\* What the call added to the log and to the connection events of run r.
Added(old, new) == SubSeq(new, Len(old) + 1, Len(new))

\* The lines the callers log when the call raised.
HandlerLines ==
    {"ERROR An error occurred during data insertion", "ERROR Error Logistics rows deleted",
     "ERROR Error Logistics rows insert", "ERROR Error during Update and Insert"}

\* C23: one call of execute_sql_psycopg2.  When it succeeds the statement
\* is committed: the table is what the statement makes of it.  When the
\* connect or the statement fails nothing is committed (both tables are as
\* before) and the error reaches the caller, whose handler logs it.  Either
\* way the connection the call opened is closed when the call ends, and no
\* connection is left open.
C23_CommitOrRaiseAlwaysClose ==
    [][\A r \in Runs : AtSqlStep(r) /\ run'[r] # run[r] =>
          LET st == run[r].pc
              lines == Added(run[r].log, run'[r].log)
              conns == Added(run[r].dest, run'[r].dest)
          IN  /\ Len(lines) >= 2
              /\ \/ /\ lines[1] = "INFO SQL query executed successfully"
                    /\ SqlEffect(r).ok
                    /\ (IF st = "truncate" THEN staging' ELSE target') = SqlEffect(r).table
                    /\ run'[r][st] = "ok"
                    /\ lines[2] \notin HandlerLines
                    /\ conns = <<"open", "close">>
                 \/ /\ lines[1] = "ERROR Error executing SQL query"
                    /\ target' = target
                    /\ staging' = staging
                    /\ run'[r][st] = "fail"
                    /\ lines[2] \in HandlerLines
                    /\ conns \in {<<>>, <<"open", "close">>}]_vars

\* The upsert failed while it executed, on staged rows and a target row,
\* after the truncate was committed; the target is as it was.
C23_Witness ==
    \E r \in Runs :
        /\ run[r].pc = "done"
        /\ run[r].truncate = "ok"
        /\ run[r].upsert = "fail"
        /\ ~InsertOnConflict(target, staging).ok
        /\ staging # <<>>
        /\ target # <<>>
        /\ target = run[r].tgt0
        /\ Len(run[r].dest) = 2 * DestCalls(r)

---------------------------------------------------------------------------
(* C24 *)

\* Run r of the logistics pipeline has ended, its DELETE failed and its
\* INSERT succeeded.
InsertedAfterFailedDelete(r) ==
    /\ pipeline = "logistics"
    /\ run[r].pc = "done"
    /\ run[r].delete = "fail"
    /\ run[r].insert = "ok"

\* C24: in the logistics pipeline insert_rows runs whether or not
\* delete_rows succeeded.  After a failed DELETE and a successful INSERT the
\* target holds its old rows followed by the staged rows: for every natural
\* key that is in both tables, the old row and the staged row.
C24_InsertAfterFailedDeleteKeepsBoth ==
    \A r \in Runs :
        /\ pipeline = "logistics" /\ run[r].pc = "done" /\ run[r].delete # "none"
              => run[r].insert # "none"
        /\ InsertedAfterFailedDelete(r) =>
              /\ target = run[r].tgt0 \o staging
              /\ \A k \in Keys : HasKey(run[r].tgt0, k) /\ HasKey(staging, k) =>
                    /\ \A i \in DOMAIN run[r].tgt0 : Key(run[r].tgt0[i]) = k =>
                          Copies(target, run[r].tgt0[i]) >= 1
                    /\ \A j \in DOMAIN staging : Key(staging[j]) = k =>
                          Copies(target, staging[j]) >= 1
                    /\ Len(WithKey(target, k))
                          = Len(WithKey(run[r].tgt0, k)) + Len(WithKey(staging, k))

\* The DELETE failed, the INSERT succeeded, and a natural key is in the old
\* target and in the staging table.
C24_Witness ==
    \E r \in Runs :
        /\ InsertedAfterFailedDelete(r)
        /\ \E k \in Keys : HasKey(run[r].tgt0, k) /\ HasKey(staging, k)
                             /\ Len(WithKey(target, k)) = 2

---------------------------------------------------------------------------
(* C25 *)

\* Rows t and s differ in a key field and have the same upsert key.
Colliding(t, s) == Key(t) # Key(s) /\ SqlEq(ConflictKey(t), ConflictKey(s))

\* Run r of the order pipeline has ended with a successful upsert, target
\* row i of its start collides with staged row j, and no other staged row
\* has that upsert key.
MergedByUpsert(r, i, j) ==
    /\ pipeline = "order"
    /\ run[r].pc = "done"
    /\ run[r].upsert = "ok"
    /\ Latest(r)
    /\ i \in DOMAIN run[r].tgt0
    /\ j \in DOMAIN staging
    /\ Colliding(run[r].tgt0[i], staging[j])
    /\ OnlyConflict(run[r].tgt0[i], j)

\* C25: the upsert takes two rows for the same row exactly when the
\* lower-cased concatenations of their four key fields are equal, so a
\* staged row whose key fields differ from those of a target row but whose
\* concatenation is the same is merged into that target row and overwrites
\* it: afterwards the target holds the staged row in the place of the old
\* one, and no other row with that concatenation.
C25_CollidingRowsMergedLaterWins ==
    \A r \in Runs : \A i \in DOMAIN run[r].tgt0 : \A j \in DOMAIN staging :
        MergedByUpsert(r, i, j) =>
            /\ target[i] = staging[j]
            /\ Cardinality({n \in DOMAIN target :
                               SqlEq(ConflictKey(target[n]), ConflictKey(staging[j]))}) = 1

\* What does hold for C25: the staged row is not added as a row of its own;
\* the old row takes its values in every column but "Network order id",
\* which it keeps.
C25_CollidingRowsUpdateOldRow ==
    \A r \in Runs : \A i \in DOMAIN run[r].tgt0 : \A j \in DOMAIN staging :
        MergedByUpsert(r, i, j) =>
            /\ target[i] = DoUpdateSet(run[r].tgt0[i], staging[j])
            /\ Copies(target, staging[j]) = 0
            /\ Len(target) <= Len(run[r].tgt0) + Len(staging) - 1

---------------------------------------------------------------------------
(* C26 *)

\* The staging table holds two rows with the same upsert key.
StagedKeyTwice ==
    \E i, j \in DOMAIN staging :
        i # j /\ SqlEq(ConflictKey(staging[i]), ConflictKey(staging[j]))

\* Run r of the order pipeline has ended after insert_update was executed
\* on a staging table with two rows of the same upsert key.
UpsertedKeyTwice(r) ==
    /\ pipeline = "order"
    /\ run[r].pc = "done"
    /\ run[r].upsert # "none"
    /\ Latest(r)
    /\ StagedKeyTwice

\* C26: when the staging table holds two rows with the same upsert key,
\* insert_update fails as a whole: the target is as it was before the run,
\* the error is logged, and the run ends normally.
C26_StagedKeyTwiceFailsWhole ==
    \A r \in Runs : UpsertedKeyTwice(r) =>
        /\ run[r].upsert = "fail"
        /\ target = run[r].tgt0
        /\ Logged(r, "ERROR Error during Update and Insert")
        /\ run[r].exit = "0"

\* What does hold for C26: when the statement fails nothing of it is
\* applied, the error is logged and the run ends normally; and it does fail
\* whenever the two staged rows of one key meet no target row or a target
\* row that has their key also after the update.
C26_FailedUpsertAppliesNothing ==
    \A r \in Runs :
        /\ (pipeline = "order" /\ run[r].pc = "done" /\ run[r].upsert = "fail") =>
              /\ target = run[r].tgt0
              /\ Logged(r, "ERROR Error during Update and Insert")
              /\ run[r].exit = "0"
        /\ (UpsertedKeyTwice(r)
               /\ \A i \in DOMAIN run[r].tgt0 : \A j \in DOMAIN staging :
                      SqlEq(ConflictKey(run[r].tgt0[i]), ConflictKey(staging[j])) =>
                          SqlEq(ConflictKey(DoUpdateSet(run[r].tgt0[i], staging[j])),
                                ConflictKey(staging[j])))
              => run[r].upsert = "fail"

---------------------------------------------------------------------------
(* C27 *)

\* The last call was one of the two loads of GoogleSheetsETL.
LoadCall == last.fn \in {"load_pincode_data", "load_generic_spreadsheet_data"}

\* The data rows of the sheet, and the rows a load makes of them.
DataRows == IF sheet = <<>> THEN <<>> ELSE Tail(sheet)
FrameOf(fn) ==
    LET df == fetch_sheet_data(TRUE, sheet, "none")
    IN  IF fn = "load_pincode_data" THEN PincodeFrame(df) ELSE GenericFrame(df)

\* The last rows of table are rows.
EndsWith(table, rows) ==
    /\ Len(rows) <= Len(table)
    /\ SubSeq(table, Len(table) - Len(rows) + 1, Len(table)) = rows

\* C27: load_pincode_data and load_generic_spreadsheet_data never raise.
\* They return False and leave the table as it was whenever the client is
\* not authenticated, the sheet fetch fails or the sheet has no data row.
\* They return True only after the insert succeeded: the table then ends
\* with the rows made of the data rows of the sheet.
C27_LoadReturnsFalseUntouched ==
    LoadCall =>
        /\ last.raised = "none"
        /\ last.result \in {"True", "False"}
        /\ (~service \/ last.fault[1] = "http" \/ DataRows = <<>>) =>
              /\ last.result = "False"
              /\ loaded = last.before
        /\ last.result = "True" =>
              /\ last.fault[2] # "insert"
              /\ db_manager.engine
              /\ DataRows # <<>>
              /\ Len(FrameOf(last.fn)) = Len(DataRows)
              /\ EndsWith(loaded, FrameOf(last.fn))

\* An authenticated load of a sheet that has only its header row, onto a
\* table that holds a row: False, and the row is still there.
C27_Witness ==
    /\ LoadCall
    /\ service
    /\ last.fault = <<"none", "none">>
    /\ db_manager.SessionLocal
    /\ Len(sheet) = 1
    /\ last.result = "False"
    /\ loaded = <<OldLoaded>>

---------------------------------------------------------------------------
(* C28 *)

\* The last call was bulk_insert_dataframe with truncate_first=True.
TruncatingInsert == last.fn = "bulk_insert_dataframe" /\ last.truncate_first

\* C28: bulk_insert_dataframe with truncate_first=True returns True only
\* when the truncate and the insert both succeeded (the table then holds
\* the rows of the frame and nothing else).  When the truncate fails it
\* inserts nothing and returns False: the table is as it was.  The truncate
\* is committed on its own: when the insert fails after it, the call
\* returns False and the table is empty, its old rows gone.
C28_TruncateThenInsert ==
    TruncatingInsert =>
        /\ last.result = "True" =>
              /\ db_manager.engine
              /\ last.fault = "none"
              /\ loaded = last.df
        /\ (last.fault = "truncate" \/ ~db_manager.engine) =>
              /\ last.result = "False"
              /\ loaded = last.before
        /\ (last.fault = "insert" /\ db_manager.engine) =>
              /\ last.result = "False"
              /\ loaded = <<>>

\* The insert failed after the truncate on a table that held a row.
C28_Witness ==
    /\ TruncatingInsert
    /\ last.fault = "insert"
    /\ last.df # <<>>
    /\ last.before # <<>>
    /\ last.result = "False"
    /\ loaded = <<>>

---------------------------------------------------------------------------
(* C29 *)

C29_WitnessSession ==
    /\ last.fn = "get_session"
    /\ last.raised = "RuntimeError"
    /\ db_manager.connects = 2

---------------------------------------------------------------------------
(* C30 *)

\* Input row i starts a measure: it has a table name and a measure name.
StartsMeasure(i) == workbook[i].table # "" /\ workbook[i].name # ""

\* The input rows that start a measure, in input order.
MeasureStarts == SelectSeq([i \in DOMAIN workbook |-> i], StartsMeasure)

\* The input rows of the measure that starts at row m: m and the
\* continuation rows after it, up to the next row that starts a measure.
RowsOfMeasure(m) ==
    SelectSeq([i \in DOMAIN workbook |-> i],
              LAMBDA i : i >= m /\ \A j \in DOMAIN workbook : (m < j /\ j <= i) => ~StartsMeasure(j))

\* The non-empty contents of the input rows idx, in order.
RECURSIVE Contents(_)
Contents(idx) ==
    IF idx = <<>> THEN <<>>
    ELSE (IF workbook[Head(idx)].content # "" THEN <<workbook[Head(idx)].content>> ELSE <<>>)
             \o Contents(Tail(idx))

\* The output has one row per measure of the input, in input order, and the
\* Measures cell of each is the newline-join of the contents of its rows.
OneRowPerMeasure ==
    /\ Len(output.rows) = Len(MeasureStarts)
    /\ \A k \in DOMAIN MeasureStarts :
          /\ output.rows[k].table = workbook[MeasureStarts[k]].table
          /\ output.rows[k].name = workbook[MeasureStarts[k]].name
          /\ output.rows[k].measures = Join(Contents(RowsOfMeasure(MeasureStarts[k])))

\* Input row i has content that is in no output row: no measure starts at
\* or before it.
Dropped(i) == workbook[i].content # "" /\ \A m \in 1..i : ~StartsMeasure(m)

\* C30: consolidate_dax_queries writes one output row per input row with a
\* table name and a measure name, in input order, whose Measures cell is
\* the newline-join of that row's content and the non-empty contents of the
\* continuation rows after it; no input content is dropped; the reported
\* total is the number of output rows written.
C30_EveryContentInItsMeasure ==
    output.written =>
        /\ OneRowPerMeasure
        /\ \A i \in DOMAIN workbook : ~Dropped(i)
        /\ output.total = Len(output.rows)

\* What does hold for C30: one row per measure with the joined contents of
\* its rows; the total is right when there is a measure and 1 when there is
\* none.
C30_OneRowPerMeasureTotalOffAtZero ==
    output.written =>
        /\ OneRowPerMeasure
        /\ output.total = IF MeasureStarts = <<>> THEN 1 ELSE Len(output.rows)

=============================================================================
